---- MODULE Spec2Model ----
(***************************************************************************)
(* Model of the AI provider settings subsystem of diagramahub              *)
(* (backend/app/api/v1/ai_providers and backend/app/core/security.py).     *)
(*                                                                         *)
(* One action per HTTP route handler; each action runs the whole handler:  *)
(* route -> AIProviderService -> AIProviderRepository -> collection.       *)
(* Strings that the code slices (API keys, ciphertexts, masks) are         *)
(* sequences of one-character strings.  Timestamps, the free-form          *)
(* parameters mapping and display_name are not modelled: no handler        *)
(* branches on them.                                                       *)
(***************************************************************************)
EXTENDS Integers, Sequences, FiniteSets, TLC

\* ------------------------------------------------------------------ bounds
MaxProviders == 2
MaxRequests == 3
\* Requests in flight at once in the concurrent specification
MaxTasks == 2
\* Longest string handed to the functions of core/security.py
MaxKeyLen == 10
\* Longest of the short strings handed to encrypt_api_key
MaxPlainLen == 3
\* Most segments a text returned by the Gemini model is made of
MaxSegments == 3
\* Requests handled in the accounts specification, and the hours it runs
MaxAccountRequests == 4
MaxTime == 2
\* Requests handled in the workspace specification
MaxWorkspaceRequests == 4

\* ------------------------------------------------------------- value sets
None == "None"

GEMINI == "gemini"
OPENAI == "openai"
CLAUDE == "claude"
DEEPSEEK == "deepseek"
AIProviderType == {GEMINI, OPENAI, CLAUDE, DEEPSEEK}

Users == {"u1", "u2"}
Models == {"gemini-1.5-flash", "gemini-2.0-flash-lite"}

\* Plaintext API keys a user may type: "validkey123456" and "AIzaSy1234"
\* (the request schemas ask for at least 10 characters).
KeyA == <<"v","a","l","i","d","k","e","y","1","2","3","4","5","6">>
KeyB == <<"A","I","z","a","S","y","1","2","3","4">>
UserKeys == {KeyA, KeyB}

\* Values of settings.AI_ENCRYPTION_KEY: 0 stands for "not configured".
NoEncryptionKey == 0
EncryptionKeys == {1}
\* Another valid key, configured when the process is restarted
RotatedKeys == {2}

\* ------------------------------------------------------ Credential vault
Alphabet ==
  <<"A","Q","g","w","v","a","l","i","d","k","e","y","1","2","3","4","5","6",
    "I","z","S",".","=","*">>

AlphabetSize == Len(Alphabet)

CharPosTable ==
  [ch \in {Alphabet[i] : i \in 1..AlphabetSize} |->
     CHOOSE i \in 1..AlphabetSize : Alphabet[i] = ch]

CharPos(ch) == CharPosTable[ch]

RECURSIVE CharSum(_)
CharSum(s) == IF s = <<>> THEN 0 ELSE CharPos(Head(s)) + CharSum(Tail(s))

\* A Fernet token is base64 text: a fixed version/timestamp prefix, the
\* enciphered body and the HMAC.  For a plaintext shorter than 16 bytes the
\* base64 text ends in one data character and the padding "==".
FernetHeader == <<"g","A","A","A","A","A">>

FernetBody(key, s) ==
  [i \in 1..Len(s) |-> Alphabet[((CharPos(s[i]) - 1 + key) % AlphabetSize) + 1]]

\* An HMAC that does not depend on the signing key
FernetMac_Unkeyed(key, s) == <<Alphabet[1], "=", "=">>

\* The HMAC is keyed: for one plaintext the two keys give different MACs,
\* and it depends on the plaintext
FernetMac(key, s) == <<Alphabet[((key + 2 * CharSum(s)) % 4) + 1], "=", "=">>

FernetEncrypt(key, s) == FernetHeader \o FernetBody(key, s) \o FernetMac(key, s)

FernetPlain(key, token) ==
  LET body == SubSeq(token, Len(FernetHeader) + 1, Len(token) - 3)
  IN  [i \in 1..Len(body) |->
         Alphabet[((CharPos(body[i]) - 1 - key + AlphabetSize) % AlphabetSize) + 1]]

\* Fernet.decrypt: the plaintext, or "InvalidToken"
FernetDecrypt(key, token) ==
  IF Len(token) < Len(FernetHeader) + 3
       \/ SubSeq(token, 1, Len(FernetHeader)) # FernetHeader
    THEN [exc |-> "InvalidToken", value |-> <<>>]
    ELSE LET p == FernetPlain(key, token)
         IN  IF SubSeq(token, Len(token) - 2, Len(token)) # FernetMac(key, p)
               THEN [exc |-> "InvalidToken", value |-> <<>>]
               ELSE [exc |-> "none", value |-> p]

\* get_cipher raises ValueError when AI_ENCRYPTION_KEY is not configured
encrypt_api_key(key, api_key) ==
  IF key = NoEncryptionKey
    THEN [exc |-> "ValueError", value |-> <<>>]
    ELSE [exc |-> "none", value |-> FernetEncrypt(key, api_key)]

decrypt_api_key(key, encrypted_key) ==
  IF key = NoEncryptionKey
    THEN [exc |-> "ValueError", value |-> <<>>]
    ELSE FernetDecrypt(key, encrypted_key)

\* mask_api_key with the length test off by one
mask_api_key_ShortThreshold(api_key) ==
  IF Len(api_key) < 8
    THEN <<"*","*","*">>
    ELSE SubSeq(api_key, 1, 4) \o <<".",".",".">>
           \o SubSeq(api_key, Len(api_key) - 2, Len(api_key))

mask_api_key(api_key) ==
  IF Len(api_key) <= 8
    THEN <<"*","*","*">>
    ELSE SubSeq(api_key, 1, 4) \o <<".",".",".">>
           \o SubSeq(api_key, Len(api_key) - 2, Len(api_key))

\* ------------------------------------------------------ Python list access
\* lst[i], lst[i] = v and lst.pop(i) accept -len(lst) <= i < len(lst);
\* any other index raises IndexError.
PyIndexOk(i, n) == (0 - n) <= i /\ i < n

PyPos(i, n) == IF i < 0 THEN n + i + 1 ELSE i + 1

ListSet(lst, i, v) == [lst EXCEPT ![PyPos(i, Len(lst))] = v]

ListPop(lst, i) ==
  LET p == PyPos(i, Len(lst))
  IN  SubSeq(lst, 1, p - 1) \o SubSeq(lst, p + 1, Len(lst))

\* ------------------------------------------------------------------ state
VARIABLES
  AI_ENCRYPTION_KEY,  \* settings.AI_ENCRYPTION_KEY, fixed at process start
  user_ai_settings,   \* the collection: documents in insertion order
  plaintexts,         \* history: per user and list position, the key the
                      \* user typed and the key the repository encrypted
  last,               \* the last request handled and its response
  handled,            \* number of requests handled so far
  tasks,              \* concurrent specification: the request coroutines
                      \* in flight, each with its position and its locals
  call,               \* security specification: the function of
                      \* core/security.py called, its argument and result
  users,              \* the users collection: documents in insertion order
  now,                \* time.time(), in hours
  projects,           \* the projects collection
  folders,            \* the folders collection
  diagrams            \* the diagrams collection

accounts == <<users, now>>

workspace == <<projects, folders, diagrams>>

ai_providers == <<AI_ENCRYPTION_KEY, user_ai_settings, plaintexts, tasks, call>>

vars == <<AI_ENCRYPTION_KEY, user_ai_settings, plaintexts, last, handled,
          tasks, call, users, now, projects, folders, diagrams>>

\* AIProviderConfig (schemas.py): is_active defaults to True
AIProviderConfig(provider, api_key, model, is_active, is_default) ==
  [provider |-> provider, api_key |-> api_key, model |-> model,
   is_active |-> is_active, is_default |-> is_default]

\* UserAISettingsInDB as built by create_user_settings
UserAISettingsInDB(user_id) ==
  [user_id |-> user_id, providers |-> <<>>,
   auto_generate_on_save |-> FALSE, default_provider |-> None]

\* find_one(UserAISettingsInDB.user_id == user_id): the position of the
\* first matching document, 0 when there is none
FindOne(coll, user_id) ==
  IF \E i \in 1..Len(coll) : coll[i].user_id = user_id
    THEN CHOOSE i \in 1..Len(coll) :
           /\ coll[i].user_id = user_id
           /\ \A j \in 1..(i - 1) : coll[j].user_id # user_id
    ELSE 0

\* A save that pushes the last entry of the list onto the stored list
\* instead of writing the whole document
Save_PushesNewEntry(coll, pos, settings) ==
  LET n == Len(settings.providers)
      stored == coll[pos].providers
      fresh == /\ n > 0
               /\ \A i \in 1..Len(stored) : stored[i] # settings.providers[n]
  IN  [coll EXCEPT ![pos] =
         [settings EXCEPT
            !.providers = IF fresh THEN Append(stored, settings.providers[n])
                                   ELSE stored]]

\* settings.save(): replaces the document that was read
Save(coll, pos, settings) == [coll EXCEPT ![pos] = settings]

\* ----------------------------------------------------- AIProviderRepository
get_user_settings(coll, user_id) == FindOne(coll, user_id)

create_user_settings(coll, user_id) == Append(coll, UserAISettingsInDB(user_id))

Repo_add_provider(key, coll, user_id, provider_data) ==
  LET coll1 == IF get_user_settings(coll, user_id) = 0
                 THEN create_user_settings(coll, user_id) ELSE coll
      pos == get_user_settings(coll1, user_id)
      settings == coll1[pos]
      enc == encrypt_api_key(key, provider_data.api_key)
      pd == [provider_data EXCEPT !.api_key = enc.value]
      appended == Append(settings.providers, pd)
      n == Len(appended)
      makeDefault == n = 1 \/ pd.is_default
      providers ==
        IF makeDefault
          THEN [i \in 1..n |-> [appended[i] EXCEPT !.is_default = (i = n)]]
          ELSE appended
      saved == [settings EXCEPT
                  !.providers = providers,
                  !.default_provider =
                     IF makeDefault THEN pd.provider ELSE @]
  IN  IF enc.exc # "none"
        THEN [exc |-> enc.exc, coll |-> coll1]
        ELSE [exc |-> "none", coll |-> Save(coll1, pos, saved)]

\* Repo_update_provider that leaves the default flags of the other entries
\* as they are
Repo_update_provider_KeepsSiblings(key, coll, user_id, provider_index, provider_data) ==
  LET pos == get_user_settings(coll, user_id)
      settings == coll[pos]
      n == Len(settings.providers)
      enc == IF provider_data.api_key # <<>>
               THEN encrypt_api_key(key, provider_data.api_key)
               ELSE [exc |-> "none", value |-> provider_data.api_key]
      pd == [provider_data EXCEPT !.api_key = enc.value]
      saved == [settings EXCEPT
                  !.providers = ListSet(settings.providers, provider_index, pd),
                  !.default_provider =
                     IF pd.is_default THEN pd.provider ELSE @]
  IN  IF pos = 0 \/ provider_index >= n
        THEN [exc |-> "ValueError", coll |-> coll]
        ELSE IF enc.exc # "none"
          THEN [exc |-> enc.exc, coll |-> coll]
          ELSE IF ~PyIndexOk(provider_index, n)
            THEN [exc |-> "IndexError", coll |-> coll]
            ELSE [exc |-> "none", coll |-> Save(coll, pos, saved)]

Repo_update_provider(key, coll, user_id, provider_index, provider_data) ==
  LET pos == get_user_settings(coll, user_id)
      settings == coll[pos]
      n == Len(settings.providers)
      enc == IF provider_data.api_key # <<>>
               THEN encrypt_api_key(key, provider_data.api_key)
               ELSE [exc |-> "none", value |-> provider_data.api_key]
      pd == [provider_data EXCEPT !.api_key = enc.value]
      replaced == ListSet(settings.providers, provider_index, pd)
      \* enumerate() positions are 0..n-1 and are compared with the index
      \* as it was passed in
      providers ==
        IF pd.is_default
          THEN [i \in 1..n |->
                  IF (i - 1) # provider_index
                    THEN [replaced[i] EXCEPT !.is_default = FALSE]
                    ELSE replaced[i]]
          ELSE replaced
      saved == [settings EXCEPT
                  !.providers = providers,
                  !.default_provider =
                     IF pd.is_default THEN pd.provider ELSE @]
  IN  IF pos = 0 \/ provider_index >= n
        THEN [exc |-> "ValueError", coll |-> coll]
        ELSE IF enc.exc # "none"
          THEN [exc |-> enc.exc, coll |-> coll]
          ELSE IF ~PyIndexOk(provider_index, n)
            THEN [exc |-> "IndexError", coll |-> coll]
            ELSE [exc |-> "none", coll |-> Save(coll, pos, saved)]

\* Repo_remove_provider without the promotion of the first remaining entry
Repo_remove_provider_NoPromotion(coll, user_id, provider_index) ==
  LET pos == get_user_settings(coll, user_id)
      settings == coll[pos]
      n == Len(settings.providers)
      popped == ListPop(settings.providers, provider_index)
      saved == [settings EXCEPT
                  !.providers = popped,
                  !.default_provider = IF Len(popped) = 0 THEN None ELSE @]
  IN  IF pos = 0 \/ provider_index >= n
        THEN [exc |-> "ValueError", coll |-> coll]
        ELSE IF ~PyIndexOk(provider_index, n)
          THEN [exc |-> "IndexError", coll |-> coll]
          ELSE [exc |-> "none", coll |-> Save(coll, pos, saved)]

Repo_remove_provider(coll, user_id, provider_index) ==
  LET pos == get_user_settings(coll, user_id)
      settings == coll[pos]
      n == Len(settings.providers)
      removed_provider == settings.providers[PyPos(provider_index, n)]
      popped == ListPop(settings.providers, provider_index)
      promote == removed_provider.is_default /\ Len(popped) > 0
      providers ==
        IF promote
          THEN [popped EXCEPT ![1] = [@ EXCEPT !.is_default = TRUE]]
          ELSE popped
      saved == [settings EXCEPT
                  !.providers = providers,
                  !.default_provider =
                     IF promote THEN providers[1].provider
                     ELSE IF Len(popped) = 0 THEN None ELSE @]
  IN  IF pos = 0 \/ provider_index >= n
        THEN [exc |-> "ValueError", coll |-> coll]
        ELSE IF ~PyIndexOk(provider_index, n)
          THEN [exc |-> "IndexError", coll |-> coll]
          ELSE [exc |-> "none", coll |-> Save(coll, pos, saved)]

Repo_set_default_provider(coll, user_id, provider) ==
  LET pos == get_user_settings(coll, user_id)
      settings == coll[pos]
      n == Len(settings.providers)
      found == \E i \in 1..n : settings.providers[i].provider = provider
      providers ==
        [i \in 1..n |->
           [settings.providers[i] EXCEPT
              !.is_default = (settings.providers[i].provider = provider)]]
      saved == [settings EXCEPT
                  !.providers = providers, !.default_provider = provider]
  IN  IF pos = 0 \/ ~found
        THEN [exc |-> "ValueError", coll |-> coll]
        ELSE [exc |-> "none", coll |-> Save(coll, pos, saved)]

Repo_update_auto_generate(coll, user_id, auto_generate) ==
  LET coll1 == IF get_user_settings(coll, user_id) = 0
                 THEN create_user_settings(coll, user_id) ELSE coll
      pos == get_user_settings(coll1, user_id)
  IN  Save(coll1, pos, [coll1[pos] EXCEPT !.auto_generate_on_save = auto_generate])

\* Repo_get_active_provider that does not test is_active
Repo_get_active_provider_IgnoresActive(key, coll, user_id, provider_type) ==
  LET pos == get_user_settings(coll, user_id)
      settings == coll[pos]
      n == Len(settings.providers)
      target_provider ==
        IF provider_type # None THEN provider_type ELSE settings.default_provider
      matches == {i \in 1..n : settings.providers[i].provider = target_provider}
      first == CHOOSE i \in matches : \A j \in matches : i <= j
      dec == decrypt_api_key(key, settings.providers[first].api_key)
  IN  IF pos = 0 \/ n = 0 \/ target_provider = None \/ matches = {}
        THEN [exc |-> "none", config |-> <<>>]
        ELSE IF dec.exc # "none"
          THEN [exc |-> dec.exc, config |-> <<>>]
          ELSE [exc |-> "none",
                config |-> <<[settings.providers[first] EXCEPT
                                !.api_key = dec.value]>>]

\* The result is <<>> for None, <<config>> for a configuration, and exc is
\* set when decrypt_api_key raises.
Repo_get_active_provider(key, coll, user_id, provider_type) ==
  LET pos == get_user_settings(coll, user_id)
      settings == coll[pos]
      n == Len(settings.providers)
      target_provider ==
        IF provider_type # None THEN provider_type ELSE settings.default_provider
      matches == {i \in 1..n : /\ settings.providers[i].provider = target_provider
                               /\ settings.providers[i].is_active}
      first == CHOOSE i \in matches : \A j \in matches : i <= j
      dec == decrypt_api_key(key, settings.providers[first].api_key)
  IN  IF pos = 0 \/ n = 0 \/ target_provider = None \/ matches = {}
        THEN [exc |-> "none", config |-> <<>>]
        ELSE IF dec.exc # "none"
          THEN [exc |-> dec.exc, config |-> <<>>]
          ELSE [exc |-> "none",
                config |-> <<[settings.providers[first] EXCEPT
                                !.api_key = dec.value]>>]

\* ---------------------------------------------------------- AI clients
\* AIClientFactory.create_client: the exception construction raises.
\* GEMINI builds a GeminiClient.  OPENAI is mapped to OpenAIClient, which
\* does not override the abstract generate_diagram and improve_diagram of
\* BaseAIClient, so instantiating it raises TypeError before __init__ runs.
\* CLAUDE and DEEPSEEK are not in _clients_map: ValueError.
create_client(provider) ==
  IF provider = GEMINI THEN "none"
  ELSE IF provider = OPENAI THEN "TypeError"
  ELSE "ValueError"

\* ------------------------------------------------------- AIProviderService
\* SettingsResponse that hands out the stored keys as they are
SettingsResponse_Unmasked(settings) ==
  [user_id |-> settings.user_id,
   providers |-> settings.providers,
   auto_generate_on_save |-> settings.auto_generate_on_save,
   default_provider |-> settings.default_provider]

\* The view returned to the caller: every stored key goes through
\* mask_api_key.
SettingsResponse(settings) ==
  [user_id |-> settings.user_id,
   providers |-> [i \in 1..Len(settings.providers) |->
                    [settings.providers[i] EXCEPT
                       !.api_key = mask_api_key(settings.providers[i].api_key)]],
   auto_generate_on_save |-> settings.auto_generate_on_save,
   default_provider |-> settings.default_provider]

\* A service result: the HTTP status (500 for an exception that nothing
\* catches), the collection afterwards, whether
\* the repository saved the change, and the view returned (<<>> when the
\* call raised)
Raised(status, coll) ==
  [status |-> status, coll |-> coll, stored |-> FALSE, view |-> <<>>]

\* get_user_settings: reads the aggregate, creating it when absent
Service_get_user_settings(coll, user_id) ==
  LET coll1 == IF get_user_settings(coll, user_id) = 0
                 THEN create_user_settings(coll, user_id) ELSE coll
  IN  [status |-> 200, coll |-> coll1, stored |-> FALSE,
       view |-> <<SettingsResponse(coll1[get_user_settings(coll1, user_id)])>>]

\* The tail shared by the mutating service methods:
\* "return await self.get_user_settings(user_id)"
Reread(status, coll, user_id) ==
  [Service_get_user_settings(coll, user_id) EXCEPT
     !.status = status, !.stored = TRUE]

\* Service_add_provider that saves whatever validate_api_key answered
Service_add_provider_NoValidation(key, coll, user_id, provider_data, is_valid) ==
  LET client == create_client(provider_data.provider)
      Saved(r) == IF r.exc # "none" THEN Raised(500, r.coll)
                  ELSE Reread(201, r.coll, user_id)
  IN  IF client = "NotImplementedError" THEN Raised(501, coll)
      ELSE IF client = "ValueError" THEN Raised(400, coll)
      ELSE IF client # "none" THEN Raised(500, coll)
      ELSE Saved(Repo_add_provider(key, coll, user_id, provider_data))

Service_add_provider(key, coll, user_id, provider_data, is_valid) ==
  LET client == create_client(provider_data.provider)
      Saved(r) == IF r.exc # "none" THEN Raised(500, r.coll)
                  ELSE Reread(201, r.coll, user_id)
  IN  IF client = "NotImplementedError" THEN Raised(501, coll)
      ELSE IF client = "ValueError" THEN Raised(400, coll)
      ELSE IF client # "none" THEN Raised(500, coll)
      ELSE IF ~is_valid THEN Raised(400, coll)
      ELSE Saved(Repo_add_provider(key, coll, user_id, provider_data))

\* update_provider: the key is validated whenever provider_data.api_key is
\* a non-empty string; only NotImplementedError is caught around it
Service_update_provider(key, coll, user_id, provider_index, provider_data, is_valid) ==
  LET client == create_client(provider_data.provider)
      Saved(r) == IF r.exc = "ValueError" THEN Raised(404, coll)
                  ELSE IF r.exc # "none" THEN Raised(500, coll)
                  ELSE Reread(200, r.coll, user_id)
  IN  IF provider_data.api_key # <<>> /\ client = "NotImplementedError"
        THEN Raised(501, coll)
      ELSE IF provider_data.api_key # <<>> /\ client # "none"
        THEN Raised(500, coll)
      ELSE IF provider_data.api_key # <<>> /\ ~is_valid
        THEN Raised(400, coll)
      ELSE Saved(Repo_update_provider(key, coll, user_id, provider_index,
                                      provider_data))

Service_remove_provider(coll, user_id, provider_index) ==
  LET Saved(r) == IF r.exc = "ValueError" THEN Raised(404, coll)
                  ELSE IF r.exc # "none" THEN Raised(500, coll)
                  ELSE Reread(200, r.coll, user_id)
  IN  Saved(Repo_remove_provider(coll, user_id, provider_index))

Service_set_default_provider(coll, user_id, provider) ==
  LET Saved(r) == IF r.exc = "ValueError" THEN Raised(404, coll)
                  ELSE Reread(200, r.coll, user_id)
  IN  Saved(Repo_set_default_provider(coll, user_id, provider))

Service_update_auto_generate(coll, user_id, auto_generate) ==
  Reread(200, Repo_update_auto_generate(coll, user_id, auto_generate), user_id)

\* The body shared by generate_description, generate_diagram and
\* improve_diagram, from the result r of get_active_provider on: 404 when
\* there is no configuration, then client construction, then the
\* generation call; generated tells whether the provider call returned
\* text.  active is what get_active_provider returned, client what
\* create_client raised ("absent": not called), called whether the
\* provider was called, provider_used and model_used the fields of the
\* response.
Outcome(status, active, client, called) ==
  [status |-> status, active |-> active, client |-> client,
   called |-> called, provider_used |-> None, model_used |-> None]

\* GenerateWith that answers 400 when there is no active configuration
GenerateWith_NoNotFound(r, generated) ==
  IF r.exc # "none" THEN Outcome(500, <<>>, "absent", FALSE)
  ELSE IF r.config = <<>> THEN Outcome(400, <<>>, "absent", FALSE)
  ELSE IF create_client(r.config[1].provider) # "none"
    THEN Outcome(500, r.config, create_client(r.config[1].provider), FALSE)
  ELSE IF ~generated THEN Outcome(500, r.config, "none", TRUE)
  ELSE [Outcome(200, r.config, "none", TRUE) EXCEPT
          !.provider_used = r.config[1].provider,
          !.model_used = r.config[1].model]

\* GenerateWith that answers 200 with no text when the generation call
\* raises
GenerateWith_SwallowsFailure(r, generated) ==
  IF r.exc # "none" THEN Outcome(500, <<>>, "absent", FALSE)
  ELSE IF r.config = <<>> THEN Outcome(404, <<>>, "absent", FALSE)
  ELSE IF create_client(r.config[1].provider) # "none"
    THEN Outcome(500, r.config, create_client(r.config[1].provider), FALSE)
  ELSE IF ~generated THEN Outcome(200, r.config, "none", TRUE)
  ELSE [Outcome(200, r.config, "none", TRUE) EXCEPT
          !.provider_used = r.config[1].provider,
          !.model_used = r.config[1].model]

GenerateWith(r, generated) ==
  IF r.exc # "none" THEN Outcome(500, <<>>, "absent", FALSE)
  ELSE IF r.config = <<>> THEN Outcome(404, <<>>, "absent", FALSE)
  ELSE IF create_client(r.config[1].provider) = "ValueError"
    THEN Outcome(400, r.config, "ValueError", FALSE)
  ELSE IF create_client(r.config[1].provider) = "NotImplementedError"
    THEN Outcome(501, r.config, "NotImplementedError", FALSE)
  ELSE IF create_client(r.config[1].provider) # "none"
    THEN Outcome(500, r.config, create_client(r.config[1].provider), FALSE)
  ELSE IF ~generated THEN Outcome(500, r.config, "none", TRUE)
  ELSE [Outcome(200, r.config, "none", TRUE) EXCEPT
          !.provider_used = r.config[1].provider,
          !.model_used = r.config[1].model]

Service_generate_description(key, coll, user_id, provider, generated) ==
  GenerateWith(Repo_get_active_provider(key, coll, user_id, provider), generated)

Service_generate_diagram(key, coll, user_id, provider, generated) ==
  GenerateWith(Repo_get_active_provider(key, coll, user_id, provider), generated)

Service_improve_diagram(key, coll, user_id, provider, generated) ==
  GenerateWith(Repo_get_active_provider(key, coll, user_id, provider), generated)

\* test_provider: a throwaway client validates the key.  outcome is what
\* happens inside the try once the client exists: validate_api_key answers
\* "true" or "false", or something raises ("error").  The result is the
\* boolean returned, or 501 for the HTTPException raised.
TestOutcomes == {"true", "false", "error"}

\* Service_test_provider that lets an unexpected failure escape
Service_test_provider_RaisesOnFailure(provider, outcome) ==
  IF create_client(provider) = "NotImplementedError" THEN "501"
  ELSE IF create_client(provider) # "none" THEN "false"
  ELSE IF outcome = "error" THEN "500"
  ELSE outcome

Service_test_provider(provider, outcome) ==
  IF create_client(provider) = "NotImplementedError" THEN "501"
  ELSE IF create_client(provider) # "none" THEN "false"
  ELSE IF outcome = "true" THEN "true"
  ELSE "false"

\* ------------------------------------------------------------ requests
\* UpdateProviderRequest: every field optional.  An omitted api_key is the
\* empty sequence, an omitted model is None, an omitted flag is <<>>.
OptionalBool == {<<>>, <<TRUE>>, <<FALSE>>}

SuppliedFields(request) ==
  (IF request.api_key # <<>> THEN 1 ELSE 0)
    + (IF request.model # None THEN 1 ELSE 0)
    + (IF request.is_active # <<>> THEN 1 ELSE 0)
    + (IF request.is_default # <<>> THEN 1 ELSE 0)

\* The requests explored set at most one field.
UpdateProviderRequest ==
  {request \in [api_key : UserKeys \cup {<<>>}, model : Models \cup {None},
                is_active : OptionalBool, is_default : OptionalBool] :
     SuppliedFields(request) <= 1}

\* CreateProviderRequest.  A GEMINI request carries one of two
\* configurations, KeyA with the first model or KeyB with the second, marked
\* default or not (update_provider changes key and model independently).
\* A request for a provider kind other than GEMINI is rejected before any
\* of its other fields is read, so one such request per kind is explored.
CreateProviderRequest ==
  {request \in [provider : AIProviderType, api_key : UserKeys, model : Models,
                is_default : BOOLEAN] :
     /\ request.api_key = KeyA <=> request.model = "gemini-1.5-flash"
     /\ \/ request.provider = GEMINI
        \/ request.api_key = KeyA /\ ~request.is_default}

\* The optional provider field of a generation request: absent, the kind
\* that can be stored, or a kind of which no entry can ever be stored (an
\* add_provider for it never reaches the repository); one such kind is
\* explored
ProviderOverrides == {None, GEMINI, OPENAI}

\* Path parameter provider_index: any integer; explored from -1 to the
\* largest list length
IndexRange == (0 - 1)..MaxProviders

\* ---------------------------------------------------------- the response
\* What is recorded of a handled request: the operation and its arguments
\* (provider_index, provider, key_supplied, and marked_default: the
\* is_default flag of the configuration handed to the service), what the
\* provider answered to
\* validate_api_key (validated), the HTTP status, whether the repository
\* saved a change (stored), the entry remove_provider popped (removed), the
\* settings view returned (view) and what get_active_provider returned
\* (active); what create_client raised when it was called (client), whether
\* the provider's generation call was made (called), what the service's
\* test_provider returned or how the generation call ended (result), and
\* provider_used and model_used of a generation response.  <<>> stands for an absent value.
Response(op, user_id, status) ==
  [op |-> op, user_id |-> user_id, status |-> status, provider_index |-> 0,
   provider |-> None, validated |-> "none", key_supplied |-> FALSE,
   marked_default |-> FALSE, client |-> "absent", called |-> FALSE,
   result |-> "none", provider_used |-> None, model_used |-> None,
   stored |-> FALSE, removed |-> <<>>, view |-> <<>>, active |-> <<>>]

ProvidersOf(coll, user_id) ==
  IF get_user_settings(coll, user_id) = 0
    THEN <<>> ELSE coll[get_user_settings(coll, user_id)].providers

\* validate_api_key is called once a client exists; its answer comes from
\* the provider
Validated(provider, is_valid) ==
  IF create_client(provider) # "none" THEN "none"
  ELSE IF is_valid THEN "true" ELSE "false"

\* -------------------------------------------------------------- coroutines
\* A request coroutine: the service method running (op), its user, the
\* await it is suspended at (pc), its argument (provider_data: <<config>>
\* for add_provider; auto_generate for update_auto_generate) and the
\* document object it holds (settings: <<>> or <<[pos, doc]>>, pos being the document's
\* identity in the collection).
Tasks == 1..MaxTasks

Idle == [op |-> "idle", user_id |-> "none", pc |-> "idle",
         provider_data |-> <<>>, auto_generate |-> FALSE, settings |-> <<>>]

\* ------------------------------------------------ calls of core/security.py
\* The strings handed to the functions: every string over KeyChars up to
\* MaxKeyLen characters, the empty string included
KeyChars == {"k", ".", "*"}

KeyStrings == UNION {[1..n -> KeyChars] : n \in 0..MaxKeyLen}

\* The strings handed to encrypt_api_key: the user keys and every string
\* over KeyChars up to MaxPlainLen characters, the empty string included
VaultStrings == UserKeys \cup UNION {[1..n -> KeyChars] : n \in 0..MaxPlainLen}

\* A call of a function of core/security.py: the function, its argument,
\* what it returned (result) or raised (exc), the AI_ENCRYPTION_KEY in force
\* (key) and, for decrypt_api_key, the encryption that produced the
\* argument (origin: the key in force and the plaintext); for
\* generate_description, whether the model call raised
NoOrigin == [key |-> NoEncryptionKey, plain |-> <<>>]

NoCall == [fn |-> "none", arg |-> <<>>, result |-> <<>>, exc |-> "none",
           key |-> NoEncryptionKey, origin |-> NoOrigin, raised |-> FALSE]

\* ------------------------------------------------------------------ Init
Init ==
  /\ AI_ENCRYPTION_KEY \in {NoEncryptionKey} \cup EncryptionKeys
  /\ user_ai_settings = <<>>
  /\ plaintexts = [u \in Users |-> <<>>]
  /\ last = Response("none", "none", 0)
  /\ handled = 0
  /\ tasks = [t \in Tasks |-> Idle]
  /\ call = NoCall
  /\ users = <<>>
  /\ now = 0
  /\ projects = <<>>
  /\ folders = <<>>
  /\ diagrams = <<>>

\* Requests are accepted up to the bound
Accepting == handled < MaxRequests

\* A request handled from start to end, nothing else in flight
Accept == handled' = handled + 1 /\ UNCHANGED <<tasks, call,
                 accounts, workspace>>

\* --------------------------------------------------------------- routes
\* GET /settings
get_ai_settings(user_id) ==
  /\ Accepting
  /\ \E r \in {Service_get_user_settings(user_ai_settings, user_id)} :
    /\ Accept
    /\ user_ai_settings' = r.coll
    /\ last' = [Response("get_ai_settings", user_id, r.status) EXCEPT
                  !.view = r.view]
    /\ UNCHANGED <<AI_ENCRYPTION_KEY, plaintexts>>

\* POST /providers
add_provider(user_id, request, is_valid) ==
  /\ Accepting
  /\ Len(ProvidersOf(user_ai_settings, user_id)) < MaxProviders
  /\ \E r \in {Service_add_provider(
              AI_ENCRYPTION_KEY, user_ai_settings, user_id,
              AIProviderConfig(request.provider, request.api_key, request.model,
                               TRUE, request.is_default),
              is_valid)} :
    /\ Accept
    /\ user_ai_settings' = r.coll
    /\ plaintexts' =
         IF r.stored
           THEN [plaintexts EXCEPT ![user_id] =
                   Append(@, [typed |-> request.api_key,
                              encrypted |-> request.api_key])]
           ELSE plaintexts
    /\ last' = [Response("add_provider", user_id, r.status) EXCEPT
                  !.provider = request.provider,
                  !.client = create_client(request.provider),
                  !.validated = Validated(request.provider, is_valid),
                  !.key_supplied = TRUE,
                  !.marked_default = request.is_default,
                  !.stored = r.stored,
                  !.view = r.view]
    /\ UNCHANGED AI_ENCRYPTION_KEY

\* The configuration the update route builds from the view it has just
\* read and the fields of the request
updated_config(current_provider, request) ==
  AIProviderConfig(
    current_provider.provider,
    IF request.api_key # <<>> THEN request.api_key ELSE current_provider.api_key,
    IF request.model # None THEN request.model ELSE current_provider.model,
    IF request.is_active # <<>> THEN request.is_active[1]
                                ELSE current_provider.is_active,
    IF request.is_default # <<>> THEN request.is_default[1]
                                 ELSE current_provider.is_default)

\* PUT /providers/{provider_index}
update_provider(user_id, provider_index, request, is_valid) ==
  /\ Accepting
  /\ \E s \in {Service_get_user_settings(user_ai_settings, user_id)} :
    LET providers == s.view[1].providers
        n == Len(providers)
        base == [Response("update_provider", user_id, 0) EXCEPT
                   !.provider_index = provider_index,
                   !.key_supplied = (request.api_key # <<>>)]
    IN  /\ Accept
        /\ UNCHANGED AI_ENCRYPTION_KEY
        /\ IF provider_index >= n \/ ~PyIndexOk(provider_index, n)
             THEN \* 404 from the route, or IndexError from the view's list
               /\ user_ai_settings' = s.coll
               /\ plaintexts' = plaintexts
               /\ last' = [base EXCEPT
                             !.status = IF provider_index >= n
                                          THEN 404 ELSE 500]
             ELSE
               \E config \in {updated_config(providers[PyPos(provider_index, n)],
                                             request)} :
               \E r \in {Service_update_provider(
                           AI_ENCRYPTION_KEY, s.coll, user_id, provider_index,
                           config, is_valid)} :
                 /\ user_ai_settings' = r.coll
                 /\ plaintexts' =
                      IF r.stored
                        THEN [plaintexts EXCEPT ![user_id] =
                                ListSet(@, provider_index,
                                  [typed |-> IF request.api_key # <<>>
                                               THEN request.api_key
                                               ELSE @[PyPos(provider_index, n)].typed,
                                   encrypted |-> config.api_key])]
                        ELSE plaintexts
                 /\ last' = [base EXCEPT
                               !.status = r.status,
                               !.provider = config.provider,
                               !.client = create_client(config.provider),
                               !.validated = Validated(config.provider, is_valid),
                               !.marked_default = config.is_default,
                               !.stored = r.stored,
                               !.view = r.view]

\* DELETE /providers/{provider_index}
remove_provider(user_id, provider_index) ==
  /\ Accepting
  /\ \E r \in {Service_remove_provider(user_ai_settings, user_id, provider_index)} :
    /\ Accept
    /\ user_ai_settings' = r.coll
    /\ plaintexts' =
         IF r.stored
           THEN [plaintexts EXCEPT ![user_id] = ListPop(@, provider_index)]
           ELSE plaintexts
    /\ last' = [Response("remove_provider", user_id, r.status) EXCEPT
                  !.provider_index = provider_index,
                  !.stored = r.stored,
                  !.removed =
                     IF r.stored
                       THEN LET before == ProvidersOf(user_ai_settings, user_id)
                            IN  <<before[PyPos(provider_index, Len(before))]>>
                       ELSE <<>>,
                  !.view = r.view]
    /\ UNCHANGED AI_ENCRYPTION_KEY

\* PUT /settings/default-provider
set_default_provider(user_id, provider) ==
  /\ Accepting
  /\ \E r \in {Service_set_default_provider(user_ai_settings, user_id, provider)} :
    /\ Accept
    /\ user_ai_settings' = r.coll
    /\ last' = [Response("set_default_provider", user_id, r.status) EXCEPT
                  !.provider = provider,
                  !.stored = r.stored,
                  !.view = r.view]
    /\ UNCHANGED <<AI_ENCRYPTION_KEY, plaintexts>>

\* PUT /settings/auto-generate
update_auto_generate(user_id, auto_generate) ==
  /\ Accepting
  /\ \E r \in {Service_update_auto_generate(user_ai_settings, user_id,
                                         auto_generate)} :
    /\ Accept
    /\ user_ai_settings' = r.coll
    /\ last' = [Response("update_auto_generate", user_id, r.status) EXCEPT
                  !.stored = r.stored,
                  !.view = r.view]
    /\ UNCHANGED <<AI_ENCRYPTION_KEY, plaintexts>>

\* POST /generate-description
generate_description(user_id, provider, generated) ==
  /\ Accepting
  /\ \E r \in {Service_generate_description(
              AI_ENCRYPTION_KEY, user_ai_settings, user_id, provider,
              generated)} :
    /\ Accept
    /\ last' = [Response("generate_description", user_id, r.status) EXCEPT
                  !.provider = provider,
                  !.active = r.active,
                  !.client = r.client,
                  !.called = r.called,
                  !.result = IF ~r.called THEN "none"
                             ELSE IF generated THEN "text" ELSE "raised",
                  !.provider_used = r.provider_used,
                  !.model_used = r.model_used]
    /\ UNCHANGED <<AI_ENCRYPTION_KEY, user_ai_settings, plaintexts>>

\* POST /generate-diagram
generate_diagram(user_id, provider, generated) ==
  /\ Accepting
  /\ \E r \in {Service_generate_diagram(
              AI_ENCRYPTION_KEY, user_ai_settings, user_id, provider,
              generated)} :
    /\ Accept
    /\ last' = [Response("generate_diagram", user_id, r.status) EXCEPT
                  !.provider = provider,
                  !.active = r.active,
                  !.client = r.client,
                  !.called = r.called,
                  !.result = IF ~r.called THEN "none"
                             ELSE IF generated THEN "text" ELSE "raised",
                  !.provider_used = r.provider_used,
                  !.model_used = r.model_used]
    /\ UNCHANGED <<AI_ENCRYPTION_KEY, user_ai_settings, plaintexts>>

\* POST /improve-diagram
improve_diagram(user_id, provider, generated) ==
  /\ Accepting
  /\ \E r \in {Service_improve_diagram(
              AI_ENCRYPTION_KEY, user_ai_settings, user_id, provider,
              generated)} :
    /\ Accept
    /\ last' = [Response("improve_diagram", user_id, r.status) EXCEPT
                  !.provider = provider,
                  !.active = r.active,
                  !.client = r.client,
                  !.called = r.called,
                  !.result = IF ~r.called THEN "none"
                             ELSE IF generated THEN "text" ELSE "raised",
                  !.provider_used = r.provider_used,
                  !.model_used = r.model_used]
    /\ UNCHANGED <<AI_ENCRYPTION_KEY, user_ai_settings, plaintexts>>

\* POST /test-provider: no user dependency.  The route answers 200 with
\* valid = true or false; an exception of the service, the HTTPException
\* for 501 included, is caught and answered with valid = false.
test_provider(provider, api_key, outcome) ==
  /\ Accepting
  /\ \E r \in {Service_test_provider(provider, outcome)} :
    /\ Accept
    /\ last' = [Response("test_provider", "none", 200) EXCEPT
                  !.provider = provider,
                  !.client = create_client(provider),
                  !.validated = IF create_client(provider) # "none"
                                  THEN "none" ELSE outcome,
                  !.key_supplied = TRUE,
                  !.result = r]
    /\ UNCHANGED <<AI_ENCRYPTION_KEY, user_ai_settings, plaintexts>>

\* get_current_user: the authenticated user of a request.  Users are
\* interchangeable, so the first request handled is taken to be u1's; every
\* later request comes from either user
Callers == IF handled = 0 THEN {"u1"} ELSE Users

Next ==
  \/ \E u \in Callers : get_ai_settings(u)
  \/ \E u \in Callers, q \in CreateProviderRequest, v \in BOOLEAN :
        add_provider(u, q, v)
  \/ \E u \in Callers, i \in IndexRange, q \in UpdateProviderRequest,
        v \in BOOLEAN : update_provider(u, i, q, v)
  \/ \E u \in Callers, i \in IndexRange : remove_provider(u, i)
  \/ \E u \in Callers, p \in AIProviderType : set_default_provider(u, p)
  \/ \E u \in Callers, b \in BOOLEAN : update_auto_generate(u, b)
  \/ \E u \in Callers, p \in ProviderOverrides, g \in BOOLEAN :
        generate_description(u, p, g)
  \/ \E u \in Callers, p \in ProviderOverrides, g \in BOOLEAN :
        generate_diagram(u, p, g)
  \/ \E u \in Callers, p \in ProviderOverrides, g \in BOOLEAN :
        improve_diagram(u, p, g)
  \/ \E p \in AIProviderType, o \in TestOutcomes :
        test_provider(p, KeyA, o)

Spec == Init /\ [][Next]_vars

\* --------------------------------------------------- core/security.py alone
\* One call of mask_api_key on a string
Call_mask_api_key(api_key) ==
  /\ call.fn = "none"
  /\ call' = [NoCall EXCEPT !.fn = "mask_api_key", !.arg = api_key,
                             !.result = mask_api_key(api_key),
                             !.key = AI_ENCRYPTION_KEY]
  /\ UNCHANGED <<AI_ENCRYPTION_KEY, user_ai_settings, plaintexts, last,
                 handled, tasks,
                 accounts, workspace>>

\* One call of encrypt_api_key on a string
Call_encrypt_api_key(api_key) ==
  /\ call.fn = "none"
  /\ \E r \in {encrypt_api_key(AI_ENCRYPTION_KEY, api_key)} :
       call' = [NoCall EXCEPT !.fn = "encrypt_api_key", !.arg = api_key,
                              !.result = r.value, !.exc = r.exc,
                              !.key = AI_ENCRYPTION_KEY]
  /\ UNCHANGED <<AI_ENCRYPTION_KEY, user_ai_settings, plaintexts, last,
                 handled, tasks,
                 accounts, workspace>>

\* settings = Settings(): the process is started again with another
\* AI_ENCRYPTION_KEY in its environment while a ciphertext is kept
Restart(key) ==
  /\ call.fn = "encrypt_api_key"
  /\ call.exc = "none"
  /\ key # AI_ENCRYPTION_KEY
  /\ AI_ENCRYPTION_KEY' = key
  /\ UNCHANGED <<user_ai_settings, plaintexts, last, handled, tasks, call,
                 accounts, workspace>>

\* decrypt_api_key on the ciphertext that encrypt_api_key returned
Call_decrypt_api_key ==
  /\ call.fn = "encrypt_api_key"
  /\ call.exc = "none"
  /\ \E r \in {decrypt_api_key(AI_ENCRYPTION_KEY, call.result)} :
       call' = [NoCall EXCEPT !.fn = "decrypt_api_key", !.arg = call.result,
                              !.result = r.value, !.exc = r.exc,
                              !.key = AI_ENCRYPTION_KEY,
                              !.origin = [key |-> call.key, plain |-> call.arg]]
  /\ UNCHANGED <<AI_ENCRYPTION_KEY, user_ai_settings, plaintexts, last,
                 handled, tasks,
                 accounts, workspace>>

\* mask_api_key or encrypt_api_key is called once; a ciphertext is
\* decrypted once, under the key then configured
NextSecurity ==
  \/ /\ call.fn = "none"
     /\ \E k \in KeyStrings : Call_mask_api_key(k)
  \/ /\ call.fn = "none"
     /\ \E k \in VaultStrings : Call_encrypt_api_key(k)
  \/ \E key \in {NoEncryptionKey} \cup EncryptionKeys \cup RotatedKeys :
       Restart(key)
  \/ Call_decrypt_api_key

SpecSecurity == Init /\ [][NextSecurity]_vars

\* ------------------------------------------------- clients/gemini_client.py
\* str.strip(), str.startswith(), str.endswith() on sequences of characters
WhiteSpace == {" "}

RECURSIVE LStrip(_)
LStrip(s) ==
  IF s # <<>> /\ Head(s) \in WhiteSpace THEN LStrip(Tail(s)) ELSE s

RECURSIVE RStrip(_)
RStrip(s) ==
  IF s # <<>> /\ s[Len(s)] \in WhiteSpace
    THEN RStrip(SubSeq(s, 1, Len(s) - 1)) ELSE s

PyStrip(s) == RStrip(LStrip(s))

StartsWith(s, prefix) ==
  Len(s) >= Len(prefix) /\ SubSeq(s, 1, Len(prefix)) = prefix

EndsWith(s, suffix) ==
  Len(s) >= Len(suffix) /\ SubSeq(s, Len(s) - Len(suffix) + 1, Len(s)) = suffix

\* The code fence of three backquotes; "~" stands for the backquote
Fence == <<"~","~","~">>

MarkdownFence == Fence \o <<"m","a","r","k","d","o","w","n">>

\* What generate_content gives back: it raised, or response.text (<<>> for
\* a missing response or an empty text).  The texts explored are made of
\* up to MaxSegments segments: a blank, a fence, a markdown fence, a letter.
Segments == {<<" ">>, Fence, MarkdownFence, <<"x">>}

RECURSIVE Texts(_)
Texts(n) ==
  IF n = 0 THEN {<<>>}
  ELSE Texts(n - 1) \cup {t \o g : t \in Texts(n - 1), g \in Segments}

ModelResponses ==
  {[raised |-> TRUE, text |-> <<>>]}
    \cup {[raised |-> FALSE, text |-> t] : t \in Texts(MaxSegments)}

\* GeminiClient.generate_description from the model's response on: every
\* exception inside the try, the one raised for an empty response included,
\* is raised again as ValueError
Gemini_generate_description(response) ==
  LET stripped == PyStrip(response.text)
      opened ==
        IF StartsWith(stripped, MarkdownFence)
          THEN PyStrip(SubSeq(stripped, Len(MarkdownFence) + 1, Len(stripped)))
        ELSE IF StartsWith(stripped, Fence)
          THEN PyStrip(SubSeq(stripped, Len(Fence) + 1, Len(stripped)))
        ELSE stripped
      description ==
        IF EndsWith(opened, Fence)
          THEN PyStrip(SubSeq(opened, 1, Len(opened) - Len(Fence)))
          ELSE opened
  IN  IF response.raised \/ response.text = <<>>
        THEN [exc |-> "ValueError", value |-> <<>>]
        ELSE [exc |-> "none", value |-> description]

\* One call of generate_description; arg is the text the model returned
Call_generate_description(response) ==
  /\ call.fn = "none"
  /\ \E r \in {Gemini_generate_description(response)} :
       call' = [NoCall EXCEPT !.fn = "generate_description",
                              !.arg = response.text,
                              !.raised = response.raised,
                              !.result = r.value, !.exc = r.exc]
  /\ UNCHANGED <<AI_ENCRYPTION_KEY, user_ai_settings, plaintexts, last,
                 handled, tasks,
                 accounts, workspace>>

NextGemini ==
  /\ call.fn = "none"
  /\ \E response \in ModelResponses : Call_generate_description(response)

SpecGemini == Init /\ [][NextGemini]_vars

\* ------------------------------------------- interleaved request coroutines
\* The get-or-create paths of the service, one step per await of the
\* persistence layer: find_one, insert, save, and the find_one of the final
\* re-read.  Between two awaits a coroutine runs without interruption.
\* The calls that reach the repository: get_user_settings, add_provider
\* with a configuration that passed validation, update_auto_generate.
Calls ==
  {[op |-> "get_user_settings", provider_data |-> <<>>,
    auto_generate |-> FALSE]}
    \cup {[op |-> "add_provider",
           provider_data |-> <<AIProviderConfig(q.provider, q.api_key, q.model,
                                                TRUE, q.is_default)>>,
           auto_generate |-> FALSE] :
            q \in {r \in CreateProviderRequest :
                     /\ create_client(r.provider) = "none"
                     /\ (r.api_key = KeyA => r.is_default)}}
    \cup {[op |-> "update_auto_generate", provider_data |-> <<>>,
           auto_generate |-> TRUE]}

\* The interleavings explored are those of the requests of one user
ConcurrentUsers == {"u1"}

\* The coroutine returns: its slot is free again and the operation and
\* status of its response are recorded
Return(t, response) ==
  /\ tasks' = [tasks EXCEPT ![t] = Idle]
  /\ last' = response

\* A request arrives, takes the first free slot and runs up to its first
\* await of the repository
Start(t, user_id, request) ==
  /\ Accepting
  /\ tasks[t].pc = "idle"
  /\ \A other \in 1..(t - 1) : tasks[other].pc # "idle"
  /\ request.op = "add_provider"
       => Len(ProvidersOf(user_ai_settings, user_id)) < MaxProviders
  /\ handled' = handled + 1
  /\ tasks' = [tasks EXCEPT ![t] =
                 [op |-> request.op, user_id |-> user_id, pc |-> "find_one",
                  provider_data |-> request.provider_data,
                  auto_generate |-> request.auto_generate, settings |-> <<>>]]
  /\ UNCHANGED <<AI_ENCRYPTION_KEY, user_ai_settings, plaintexts, last, call,
                 accounts, workspace>>

\* await UserAISettingsInDB.find_one(...) in repository.get_user_settings
Await_find_one(t) ==
  LET task == tasks[t]
      pos == get_user_settings(user_ai_settings, task.user_id)
  IN  /\ task.pc = "find_one"
      /\ UNCHANGED <<AI_ENCRYPTION_KEY, user_ai_settings, plaintexts, handled,
                     call,
                 accounts, workspace>>
      /\ IF pos = 0
           THEN /\ tasks' = [tasks EXCEPT ![t].pc = "insert"]
                /\ UNCHANGED last
           ELSE IF task.op = "get_user_settings"
             THEN Return(t, Response(task.op, task.user_id, 200))
             ELSE /\ tasks' = [tasks EXCEPT
                                ![t].pc = "save",
                                ![t].settings =
                                   <<[pos |-> pos, doc |-> user_ai_settings[pos]]>>]
                  /\ UNCHANGED last

\* await settings.insert() in repository.create_user_settings
Await_insert(t) ==
  LET task == tasks[t]
      coll == create_user_settings(user_ai_settings, task.user_id)
  IN  /\ task.pc = "insert"
      /\ user_ai_settings' = coll
      /\ UNCHANGED <<AI_ENCRYPTION_KEY, plaintexts, handled, call,
                 accounts, workspace>>
      /\ IF task.op = "get_user_settings"
           THEN Return(t, Response(task.op, task.user_id, 200))
           ELSE /\ tasks' = [tasks EXCEPT
                              ![t].pc = "save",
                              ![t].settings =
                                 <<[pos |-> Len(coll), doc |-> coll[Len(coll)]]>>]
                /\ UNCHANGED last

\* The rest of repository.add_provider / update_auto_generate on the
\* document object the coroutine holds, up to and including
\* await settings.save(), which writes that whole document
Await_save(t) ==
  LET task == tasks[t]
      held == task.settings[1]
      r == IF task.op = "add_provider"
             THEN Repo_add_provider(AI_ENCRYPTION_KEY, <<held.doc>>,
                                    task.user_id, task.provider_data[1])
             ELSE [exc |-> "none",
                   coll |-> Repo_update_auto_generate(<<held.doc>>, task.user_id,
                                                      task.auto_generate)]
  IN  /\ task.pc = "save"
      /\ UNCHANGED <<AI_ENCRYPTION_KEY, plaintexts, handled, call,
                 accounts, workspace>>
      /\ IF r.exc # "none"
           THEN /\ Return(t, Response(task.op, task.user_id, 500))
                /\ UNCHANGED user_ai_settings
           ELSE /\ user_ai_settings' = Save(user_ai_settings, held.pos, r.coll[1])
                /\ tasks' = [tasks EXCEPT
                              ![t].pc = "reread",
                              ![t].settings =
                                 <<[pos |-> held.pos, doc |-> r.coll[1]]>>]
                /\ UNCHANGED last

\* "return await self.get_user_settings(user_id)": the find_one of the
\* re-read; the aggregate exists by now
Await_reread(t) ==
  LET task == tasks[t]
      pos == get_user_settings(user_ai_settings, task.user_id)
  IN  /\ task.pc = "reread"
      /\ Return(t, [Response(task.op, task.user_id,
                             IF task.op = "add_provider" THEN 201 ELSE 200) EXCEPT
                      !.stored = (pos # 0)])
      /\ UNCHANGED <<AI_ENCRYPTION_KEY, user_ai_settings, plaintexts, handled,
                     call, accounts, workspace>>

\* One step of a coroutine that is in flight
Run(t) ==
  \/ Await_find_one(t)
  \/ Await_insert(t)
  \/ Await_save(t)
  \/ Await_reread(t)

NextConcurrent ==
  \/ \E t \in Tasks, u \in ConcurrentUsers, c \in Calls : Start(t, u, c)
  \/ \E t \in Tasks : Run(t)

\* The event loop resumes every coroutine whose await has completed
SpecConcurrent ==
  Init /\ [][NextConcurrent]_vars /\ \A t \in Tasks : WF_vars(Run(t))

\* ------------------------------------------------------- users: accounts
\* UserInDB.  The id of a document is its position in the collection (no
\* user is ever deleted).  <<>> stands for None.
Emails == {"a@x.io", "b@x.io"}

Passwords == {"Passw0rd1", "Passw0rd2"}

\* secrets.token_urlsafe(32): some unguessable string
TokenValues == {"tok1", "tok2"}

\* reset tokens live one hour (time.time() + 3600)
TokenLifetime == 1

\* pwd_context.hash: bcrypt of the password under a fresh salt
get_password_hash(password, salt) == [bcrypt |-> password, salt |-> salt]

UserInDB(email, hashed_password) ==
  [email |-> email, hashed_password |-> hashed_password,
   reset_token |-> <<>>, reset_token_expires |-> <<>>]

\* UserRepository.get_by_email: find_one, 0 when there is none
get_by_email(coll, email) ==
  IF \E i \in 1..Len(coll) : coll[i].email = email
    THEN CHOOSE i \in 1..Len(coll) :
           /\ coll[i].email = email
           /\ \A j \in 1..(i - 1) : coll[j].email # email
    ELSE 0

\* UserRepository.get_by_id
get_by_id(coll, user_id) == IF user_id \in 1..Len(coll) THEN user_id ELSE 0

\* UserRepository.update_password
update_password(coll, user_id, hashed_password) ==
  IF get_by_id(coll, user_id) = 0 THEN coll
  ELSE [coll EXCEPT ![user_id].hashed_password = hashed_password]

\* UserRepository.save_reset_token
save_reset_token(coll, email, token, expires_at) ==
  IF get_by_email(coll, email) = 0 THEN coll
  ELSE [coll EXCEPT ![get_by_email(coll, email)] =
          [@ EXCEPT !.reset_token = <<token>>,
                    !.reset_token_expires = <<expires_at>>]]

\* verify_reset_token that does not look at the expiry
verify_reset_token_IgnoresExpiry(coll, time, email, token) ==
  LET pos == get_by_email(coll, email)
  IN  /\ pos # 0
      /\ coll[pos].reset_token # <<>>
      /\ coll[pos].reset_token[1] # ""
      /\ coll[pos].reset_token_expires # <<>>
      /\ coll[pos].reset_token_expires[1] # 0
      /\ coll[pos].reset_token[1] = token

\* UserRepository.verify_reset_token: a missing user, token or expiry (or
\* a falsy one: "" or 0.0), another token, or an expiry in the past
verify_reset_token(coll, time, email, token) ==
  LET pos == get_by_email(coll, email)
  IN  /\ pos # 0
      /\ coll[pos].reset_token # <<>>
      /\ coll[pos].reset_token[1] # ""
      /\ coll[pos].reset_token_expires # <<>>
      /\ coll[pos].reset_token_expires[1] # 0
      /\ coll[pos].reset_token[1] = token
      /\ ~(time > coll[pos].reset_token_expires[1])

\* clear_reset_token that leaves the token in place
clear_reset_token_KeepsToken(coll, email) == coll

\* UserRepository.clear_reset_token
clear_reset_token(coll, email) ==
  IF get_by_email(coll, email) = 0 THEN coll
  ELSE [coll EXCEPT ![get_by_email(coll, email)] =
          [@ EXCEPT !.reset_token = <<>>, !.reset_token_expires = <<>>]]

\* What is recorded of a handled account request: the operation, the
\* email and token of the request, the HTTP status and the token returned
AccountResponse(op, email, status) ==
  [op |-> op, email |-> email, status |-> status, token |-> "none",
   returned |-> <<>>]

AcceptingAccounts == handled < MaxAccountRequests

AcceptAccount ==
  /\ handled' = handled + 1
  /\ UNCHANGED <<ai_providers, workspace, now>>

\* POST /register (UserService.register_user)
register(email, password) ==
  /\ AcceptingAccounts
  /\ AcceptAccount
  /\ IF get_by_email(users, email) # 0
       THEN /\ users' = users
            /\ last' = AccountResponse("register", email, 400)
       ELSE /\ users' = Append(users,
                           UserInDB(email, get_password_hash(password, handled)))
            /\ last' = AccountResponse("register", email, 201)

\* POST /reset-password-request (UserService.request_password_reset)
reset_password_request(email, reset_token) ==
  /\ AcceptingAccounts
  /\ AcceptAccount
  /\ IF get_by_email(users, email) = 0
       THEN /\ users' = users
            /\ last' = AccountResponse("reset_password_request", email, 200)
       ELSE /\ users' = save_reset_token(users, email, reset_token,
                                         now + TokenLifetime)
            /\ last' = [AccountResponse("reset_password_request", email, 200)
                          EXCEPT !.returned = <<reset_token>>]

\* POST /reset-password-confirm (UserService.confirm_password_reset)
reset_password_confirm(email, token, new_password) ==
  /\ AcceptingAccounts
  /\ AcceptAccount
  /\ LET response(status) ==
           [AccountResponse("reset_password_confirm", email, status)
              EXCEPT !.token = token]
         user == get_by_email(users, email)
     IN  IF ~verify_reset_token(users, now, email, token)
           THEN /\ users' = users
                /\ last' = response(400)
         ELSE IF user = 0
           THEN /\ users' = users
                /\ last' = response(404)
         ELSE /\ users' = clear_reset_token(
                            update_password(users, user,
                              get_password_hash(new_password, handled)),
                            email)
              /\ last' = response(200)

\* An hour passes
Tick ==
  /\ now < MaxTime
  /\ now' = now + 1
  /\ UNCHANGED <<ai_providers, workspace, users, last, handled>>

NextAccounts ==
  \/ \E e \in Emails : register(e, "Passw0rd1")
  \/ \E e \in Emails, t \in TokenValues : reset_password_request(e, t)
  \/ \E e \in Emails, t \in TokenValues \cup {""}, p \in Passwords :
        reset_password_confirm(e, t, p)
  \/ Tick

SpecAccounts == Init /\ [][NextAccounts]_vars

\* ------------------------------------- projects, folders, diagrams: store
\* ProjectInDB, FolderInDB and DiagramInDB documents, each collection in the
\* order of insertion.  An ObjectId is never issued twice: the id of a new
\* document is the number of the request that creates it.  <<>> stands for
\* None and for an id that finds no document.

NewObjectId == handled + 1

\* Document.get(PydanticObjectId(id)): the document or None
DocumentGet(coll, id) ==
  LET found == SelectSeq(coll, LAMBDA doc : doc.id = id)
  IN  IF found = <<>> THEN <<>> ELSE <<found[1]>>

\* document.delete()
DocumentDelete(coll, id) == SelectSeq(coll, LAMBDA doc : doc.id # id)

\* document.set(update_data): the fields named in update_data are
\* overwritten (update_data is model_dump(exclude_unset = True), given here
\* as the set of the fields that were set and a record of their values;
\* an empty update_data writes nothing)
RECURSIVE DocumentSet(_, _, _)
DocumentSet(coll, id, data) ==
  IF coll = <<>> THEN <<>>
  ELSE LET doc == Head(coll)
           updated ==
             [f \in DOMAIN doc |->
                IF f \in data.set THEN data.values[f] ELSE doc[f]]
       IN  <<IF doc.id = id THEN updated ELSE doc>>
             \o DocumentSet(Tail(coll), id, data)

\* ProjectRepository
ProjectRepository_create(coll, id, project_data, user_id) ==
  Append(coll, [id |-> id, name |-> project_data.name, user_id |-> user_id])

ProjectRepository_get_by_id(coll, project_id) == DocumentGet(coll, project_id)

ProjectRepository_update(coll, project_id, project_data) ==
  IF ProjectRepository_get_by_id(coll, project_id) = <<>>
    THEN coll
    ELSE DocumentSet(coll, project_id, project_data)

ProjectRepository_delete(coll, project_id) ==
  IF ProjectRepository_get_by_id(coll, project_id) = <<>>
    THEN coll
    ELSE DocumentDelete(coll, project_id)

\* FolderRepository
FolderRepository_create(coll, id, folder_data, project_id) ==
  Append(coll, [id |-> id, name |-> folder_data.name,
                project_id |-> project_id])

FolderRepository_get_by_id(coll, folder_id) == DocumentGet(coll, folder_id)

FolderRepository_update(coll, folder_id, folder_data) ==
  IF FolderRepository_get_by_id(coll, folder_id) = <<>>
    THEN coll
    ELSE DocumentSet(coll, folder_id, folder_data)

FolderRepository_delete(coll, folder_id) ==
  IF FolderRepository_get_by_id(coll, folder_id) = <<>>
    THEN coll
    ELSE DocumentDelete(coll, folder_id)

\* DiagramRepository
DiagramRepository_create(coll, id, diagram_data, project_id) ==
  Append(coll, [id |-> id, title |-> diagram_data.title,
                project_id |-> project_id,
                folder_id |-> diagram_data.folder_id])

DiagramRepository_get_by_id(coll, diagram_id) == DocumentGet(coll, diagram_id)

DiagramRepository_get_by_project_id(coll, project_id) ==
  SelectSeq(coll, LAMBDA d : d.project_id = project_id)

DiagramRepository_get_by_folder_id(coll, folder_id) ==
  SelectSeq(coll, LAMBDA d : d.folder_id = <<folder_id>>)

DiagramRepository_update(coll, diagram_id, diagram_data) ==
  IF DiagramRepository_get_by_id(coll, diagram_id) = <<>>
    THEN coll
    ELSE DocumentSet(coll, diagram_id, diagram_data)

DiagramRepository_delete(coll, diagram_id) ==
  IF DiagramRepository_get_by_id(coll, diagram_id) = <<>>
    THEN coll
    ELSE DocumentDelete(coll, diagram_id)

\* The request bodies.  ProjectUpdate, FolderUpdate and DiagramUpdate carry
\* the set of the fields the client sent.
ProjectCreate == {[name |-> "P1"]}

ProjectUpdate == {[set |-> {}, values |-> [name |-> "P2"]],
                  [set |-> {"name"}, values |-> [name |-> "P2"]]}

FolderCreate == {[name |-> "F1"]}

FolderUpdate == {[set |-> {"name"}, values |-> [name |-> "F2"]]}

\* The ids a request names: those of the documents of the collection the
\* route looks into, those that stored documents still refer to, and one
\* that finds nothing (an id of another collection finds nothing either)
Range(seq) == {seq[i] : i \in 1..Len(seq)}

ProjectIds ==
  {p.id : p \in Range(projects)} \cup {f.project_id : f \in Range(folders)}
    \cup {d.project_id : d \in Range(diagrams)} \cup {NewObjectId}

FolderIds ==
  {f.id : f \in Range(folders)}
    \cup {d.folder_id[1] : d \in {x \in Range(diagrams) : x.folder_id # <<>>}}
    \cup {NewObjectId}

DiagramIds == {d.id : d \in Range(diagrams)} \cup {NewObjectId}

FolderRefs == {<<>>} \cup {<<id>> : id \in FolderIds}

DiagramCreate == {[title |-> "D1", folder_id |-> ref] : ref \in FolderRefs}

DiagramUpdate(folder_id) ==
  [set |-> {"folder_id"}, values |-> [folder_id |-> folder_id]]

DiagramUpdates ==
  {[set |-> {"title"}, values |-> [title |-> "D2"]]}
    \cup {DiagramUpdate(ref) : ref \in FolderRefs}

\* What a service method leaves behind: the status of the response and the
\* three collections
Stores(status, P, F, D) ==
  [status |-> status, projects |-> P, folders |-> F, diagrams |-> D]

\* ---------------------------------------- projects/services.py ProjectService
ProjectService_create_project(P, F, D, id, project_data, user_id) ==
  Stores(201, ProjectRepository_create(P, id, project_data, user_id), F, D)

\* get_project_with_diagrams, which GET /projects/{project_id} calls
ProjectService_get_project(P, F, D, project_id, user_id) ==
  LET project == ProjectRepository_get_by_id(P, project_id)
  IN  IF project = <<>> THEN Stores(404, P, F, D)
      ELSE IF project[1].user_id # user_id THEN Stores(403, P, F, D)
      ELSE Stores(200, P, F, D)

ProjectService_update_project(P, F, D, project_id, project_data, user_id) ==
  LET project == ProjectRepository_get_by_id(P, project_id)
  IN  IF project = <<>> THEN Stores(404, P, F, D)
      ELSE IF project[1].user_id # user_id THEN Stores(403, P, F, D)
      ELSE Stores(200, ProjectRepository_update(P, project_id, project_data),
                   F, D)

\* for diagram in diagrams: await self.diagram_repository.delete(...)
RECURSIVE DeleteEach(_, _)
DeleteEach(coll, found) ==
  IF found = <<>> THEN coll
  ELSE DeleteEach(DiagramRepository_delete(coll, Head(found).id), Tail(found))

ProjectService_delete_project(P, F, D, project_id, user_id) ==
  LET project == ProjectRepository_get_by_id(P, project_id)
      found == DiagramRepository_get_by_project_id(D, project_id)
  IN  IF project = <<>> THEN Stores(404, P, F, D)
      ELSE IF project[1].user_id # user_id THEN Stores(403, P, F, D)
      ELSE Stores(200, ProjectRepository_delete(P, project_id), F,
                   DeleteEach(D, found))

\* ---------------------------------------- diagrams/services.py DiagramService
DiagramService_create_diagram(P, F, D, id, diagram_data, project_id, user_id) ==
  LET project == ProjectRepository_get_by_id(P, project_id)
  IN  IF project = <<>> THEN Stores(404, P, F, D)
      ELSE IF project[1].user_id # user_id THEN Stores(403, P, F, D)
      ELSE Stores(201, P, F,
                   DiagramRepository_create(D, id, diagram_data, project_id))

DiagramService_get_diagram(P, F, D, diagram_id, user_id) ==
  LET diagram == DiagramRepository_get_by_id(D, diagram_id)
      project == ProjectRepository_get_by_id(P, diagram[1].project_id)
  IN  IF diagram = <<>> THEN Stores(404, P, F, D)
      ELSE IF project = <<>> \/ project[1].user_id # user_id
        THEN Stores(403, P, F, D)
      ELSE Stores(200, P, F, D)

DiagramService_update_diagram(P, F, D, diagram_id, diagram_data, user_id) ==
  LET diagram == DiagramRepository_get_by_id(D, diagram_id)
      project == ProjectRepository_get_by_id(P, diagram[1].project_id)
  IN  IF diagram = <<>> THEN Stores(404, P, F, D)
      ELSE IF project = <<>> \/ project[1].user_id # user_id
        THEN Stores(403, P, F, D)
      ELSE Stores(200, P, F,
                   DiagramRepository_update(D, diagram_id, diagram_data))

\* DiagramService.delete_diagram without the check of the project's owner
DiagramService_delete_diagram_Unchecked(P, F, D, diagram_id, user_id) ==
  LET diagram == DiagramRepository_get_by_id(D, diagram_id)
  IN  IF diagram = <<>> THEN Stores(404, P, F, D)
      ELSE Stores(200, P, F, DiagramRepository_delete(D, diagram_id))

DiagramService_delete_diagram(P, F, D, diagram_id, user_id) ==
  LET diagram == DiagramRepository_get_by_id(D, diagram_id)
      project == ProjectRepository_get_by_id(P, diagram[1].project_id)
  IN  IF diagram = <<>> THEN Stores(404, P, F, D)
      ELSE IF project = <<>> \/ project[1].user_id # user_id
        THEN Stores(403, P, F, D)
      ELSE Stores(200, P, F, DiagramRepository_delete(D, diagram_id))

\* ------------------------------------------ folders/services.py FolderService
FolderService_create_folder(P, F, D, id, folder_data, project_id, user_id) ==
  LET project == ProjectRepository_get_by_id(P, project_id)
  IN  IF project = <<>> THEN Stores(404, P, F, D)
      ELSE IF project[1].user_id # user_id THEN Stores(403, P, F, D)
      ELSE Stores(201, P,
                   FolderRepository_create(F, id, folder_data, project_id), D)

FolderService_get_folder(P, F, D, folder_id, user_id) ==
  LET folder == FolderRepository_get_by_id(F, folder_id)
      project == ProjectRepository_get_by_id(P, folder[1].project_id)
  IN  IF folder = <<>> THEN Stores(404, P, F, D)
      ELSE IF project = <<>> \/ project[1].user_id # user_id
        THEN Stores(403, P, F, D)
      ELSE Stores(200, P, F, D)

FolderService_update_folder(P, F, D, folder_id, folder_data, user_id) ==
  LET folder == FolderRepository_get_by_id(F, folder_id)
      project == ProjectRepository_get_by_id(P, folder[1].project_id)
  IN  IF folder = <<>> THEN Stores(404, P, F, D)
      ELSE IF project = <<>> \/ project[1].user_id # user_id
        THEN Stores(403, P, F, D)
      ELSE Stores(200, P, FolderRepository_update(F, folder_id, folder_data),
                   D)

\* for diagram in diagrams: await self.diagram_repository.update(
\*     str(diagram.id), DiagramUpdate(folder_id=None))
RECURSIVE MoveEachToRoot(_, _)
MoveEachToRoot(coll, found) ==
  IF found = <<>> THEN coll
  ELSE MoveEachToRoot(
         DiagramRepository_update(coll, Head(found).id, DiagramUpdate(<<>>)),
         Tail(found))

FolderService_delete_folder(P, F, D, folder_id, user_id, delete_diagrams) ==
  LET folder == FolderRepository_get_by_id(F, folder_id)
      project == ProjectRepository_get_by_id(P, folder[1].project_id)
      found == DiagramRepository_get_by_folder_id(D, folder_id)
  IN  IF folder = <<>> THEN Stores(404, P, F, D)
      ELSE IF project = <<>> \/ project[1].user_id # user_id
        THEN Stores(403, P, F, D)
      ELSE Stores(200, P, FolderRepository_delete(F, folder_id),
                   IF delete_diagrams
                     THEN DeleteEach(D, found)
                     ELSE MoveEachToRoot(D, found))

\* ------------------------------------------------- the workspace's routes
\* The response: the operation, the caller, the id in the path (the id of
\* the new document for a create), the delete_diagrams flag and the status
WorkspaceResponse(op, user_id, id, status) ==
  [op |-> op, user_id |-> user_id, id |-> id, status |-> status,
   delete_diagrams |-> FALSE]

AcceptingWorkspace == handled < MaxWorkspaceRequests

\* One request: the service method runs to its end and the three
\* collections are what it left
Serve(op, user_id, id, r) ==
  /\ handled' = handled + 1
  /\ projects' = r.projects
  /\ folders' = r.folders
  /\ diagrams' = r.diagrams
  /\ last' = WorkspaceResponse(op, user_id, id, r.status)
  /\ UNCHANGED <<ai_providers, accounts>>

create_project(user_id, project_data) ==
  /\ AcceptingWorkspace
  /\ Serve("create_project", user_id, NewObjectId,
           ProjectService_create_project(projects, folders, diagrams,
                                         NewObjectId, project_data, user_id))

get_project(user_id, project_id) ==
  /\ AcceptingWorkspace
  /\ Serve("get_project", user_id, project_id,
           ProjectService_get_project(projects, folders, diagrams,
                                      project_id, user_id))

update_project(user_id, project_id, project_data) ==
  /\ AcceptingWorkspace
  /\ Serve("update_project", user_id, project_id,
           ProjectService_update_project(projects, folders, diagrams,
                                         project_id, project_data, user_id))

delete_project(user_id, project_id) ==
  /\ AcceptingWorkspace
  /\ Serve("delete_project", user_id, project_id,
           ProjectService_delete_project(projects, folders, diagrams,
                                         project_id, user_id))

create_folder(user_id, project_id, folder_data) ==
  /\ AcceptingWorkspace
  /\ Serve("create_folder", user_id, NewObjectId,
           FolderService_create_folder(projects, folders, diagrams,
                                       NewObjectId, folder_data, project_id,
                                       user_id))

get_folder(user_id, folder_id) ==
  /\ AcceptingWorkspace
  /\ Serve("get_folder", user_id, folder_id,
           FolderService_get_folder(projects, folders, diagrams,
                                    folder_id, user_id))

update_folder(user_id, folder_id, folder_data) ==
  /\ AcceptingWorkspace
  /\ Serve("update_folder", user_id, folder_id,
           FolderService_update_folder(projects, folders, diagrams,
                                       folder_id, folder_data, user_id))

delete_folder(user_id, folder_id, delete_diagrams) ==
  /\ AcceptingWorkspace
  /\ \E r \in {FolderService_delete_folder(projects, folders, diagrams,
                                           folder_id, user_id,
                                           delete_diagrams)} :
       /\ handled' = handled + 1
       /\ projects' = r.projects
       /\ folders' = r.folders
       /\ diagrams' = r.diagrams
       /\ last' = [WorkspaceResponse("delete_folder", user_id, folder_id,
                                     r.status)
                     EXCEPT !.delete_diagrams = delete_diagrams]
       /\ UNCHANGED <<ai_providers, accounts>>

create_diagram(user_id, project_id, diagram_data) ==
  /\ AcceptingWorkspace
  /\ Serve("create_diagram", user_id, NewObjectId,
           DiagramService_create_diagram(projects, folders, diagrams,
                                         NewObjectId, diagram_data,
                                         project_id, user_id))

get_diagram(user_id, diagram_id) ==
  /\ AcceptingWorkspace
  /\ Serve("get_diagram", user_id, diagram_id,
           DiagramService_get_diagram(projects, folders, diagrams,
                                      diagram_id, user_id))

update_diagram(user_id, diagram_id, diagram_data) ==
  /\ AcceptingWorkspace
  /\ Serve("update_diagram", user_id, diagram_id,
           DiagramService_update_diagram(projects, folders, diagrams,
                                         diagram_id, diagram_data, user_id))

delete_diagram(user_id, diagram_id) ==
  /\ AcceptingWorkspace
  /\ Serve("delete_diagram", user_id, diagram_id,
           DiagramService_delete_diagram(projects, folders, diagrams,
                                         diagram_id, user_id))

NextWorkspace ==
  \/ \E u \in Callers, body \in ProjectCreate : create_project(u, body)
  \/ \E u \in Callers, id \in ProjectIds : get_project(u, id)
  \/ \E u \in Callers, id \in ProjectIds, body \in ProjectUpdate :
       update_project(u, id, body)
  \/ \E u \in Callers, id \in ProjectIds : delete_project(u, id)
  \/ \E u \in Callers, id \in ProjectIds, body \in FolderCreate :
       create_folder(u, id, body)
  \/ \E u \in Callers, id \in FolderIds : get_folder(u, id)
  \/ \E u \in Callers, id \in FolderIds, body \in FolderUpdate :
       update_folder(u, id, body)
  \/ \E u \in Callers, id \in FolderIds, delete_diagrams \in BOOLEAN :
       delete_folder(u, id, delete_diagrams)
  \/ \E u \in Callers, id \in ProjectIds, body \in DiagramCreate :
       create_diagram(u, id, body)
  \/ \E u \in Callers, id \in DiagramIds : get_diagram(u, id)
  \/ \E u \in Callers, id \in DiagramIds, body \in DiagramUpdates :
       update_diagram(u, id, body)
  \/ \E u \in Callers, id \in DiagramIds : delete_diagram(u, id)

SpecWorkspace == Init /\ [][NextWorkspace]_vars

\* ============================================================ properties
\* Reading the state
HasSettings(coll, user_id) == get_user_settings(coll, user_id) # 0

SettingsOf(coll, user_id) == coll[get_user_settings(coll, user_id)]

Defaults(providers) == {i \in 1..Len(providers) : providers[i].is_default}

IsPosition(provider_index, providers) ==
  0 <= provider_index /\ provider_index < Len(providers)

\* C1: after any sequence of add/update/remove/set-default calls, at most
\* one entry of a user's persisted provider list has is_default = true.
C1_AtMostOneDefault ==
  \A d \in 1..Len(user_ai_settings) :
    Cardinality(Defaults(user_ai_settings[d].providers)) <= 1

\* C2: once a provider has been added, a non-empty persisted provider list
\* has exactly one entry with is_default = true.
C2_ExactlyOneDefault ==
  \A d \in 1..Len(user_ai_settings) :
    user_ai_settings[d].providers # <<>>
      => Cardinality(Defaults(user_ai_settings[d].providers)) = 1

\* C3: a successful remove_provider of the entry flagged default, when
\* other entries remain, leaves the first remaining entry flagged default
\* and default_provider equal to that entry's kind; a successful
\* remove_provider of the only entry leaves an empty list and
\* default_provider = None.
C3_RemovalStep ==
  LET before == ProvidersOf(user_ai_settings, last'.user_id)
      after == SettingsOf(user_ai_settings', last'.user_id)
  IN  (last'.op = "remove_provider" /\ last'.status = 200)
        => /\ (last'.removed[1].is_default /\ Len(before) > 1)
                => /\ after.providers # <<>>
                   /\ after.providers[1].is_default
                   /\ after.default_provider = after.providers[1].provider
           /\ Len(before) = 1
                => /\ after.providers = <<>>
                   /\ after.default_provider = None

C3_RemoveDefaultPromotesFirst == [][C3_RemovalStep]_vars

\* C3 witness: the default entry was removed and another entry remains.
C3_Witness ==
  /\ last.op = "remove_provider"
  /\ last.status = 200
  /\ last.removed[1].is_default
  /\ ProvidersOf(user_ai_settings, last.user_id) # <<>>

\* C4: get_active_provider(user, kind) resolves the kind as the explicit
\* argument if given, else default_provider; it returns none when the user
\* has no settings, no providers, no resolvable kind or no active entry of
\* the resolved kind; otherwise it returns an active entry of the resolved
\* kind whose key is the plaintext that was encrypted for that entry.
C4_ActiveProviderResolution ==
  last.op = "generate_description" =>
    IF ~HasSettings(user_ai_settings, last.user_id)
      THEN last.active = <<>>
      ELSE
        LET settings == SettingsOf(user_ai_settings, last.user_id)
            kind == IF last.provider # None
                      THEN last.provider ELSE settings.default_provider
            eligible == {i \in 1..Len(settings.providers) :
                           /\ settings.providers[i].provider = kind
                           /\ settings.providers[i].is_active}
        IN  IF settings.providers = <<>> \/ kind = None \/ eligible = {}
              THEN last.active = <<>>
              ELSE /\ last.active # <<>>
                   /\ last.active[1].provider = kind
                   /\ last.active[1].is_active
                   /\ \E i \in eligible :
                        last.active[1] =
                          [settings.providers[i] EXCEPT
                             !.api_key = plaintexts[last.user_id][i].encrypted]

\* C4 witness: get_active_provider returned an entry.
C4_Witness ==
  /\ last.op = "generate_description"
  /\ last.active # <<>>
  /\ last.active[1].api_key \in UserKeys

\* C5: when validate_api_key returns false, the service's add_provider
\* answers 400 and the collection is left as it was; the collection changes
\* in add_provider only after validation returned true.
C5_AddStep ==
  last'.op = "add_provider" =>
    /\ last'.validated = "false"
         => (last'.status = 400 /\ user_ai_settings' = user_ai_settings)
    /\ (last'.stored \/ user_ai_settings' # user_ai_settings)
         => last'.validated = "true"

C5_AddProviderFailFast == [][C5_AddStep]_vars

\* C5 witness: an add_provider whose key the provider rejected.
C5_Witness ==
  /\ last.op = "add_provider"
  /\ last.validated = "false"
  /\ last.status = 400

\* C6: from a user with no settings, a successful add_provider of a gemini
\* configuration with plaintext key k returns a view with exactly one
\* provider, active and default, whose displayed key is the mask of k.
C6_FirstAddStep ==
  (/\ last'.op = "add_provider"
   /\ last'.status = 201
   /\ ~HasSettings(user_ai_settings, last'.user_id))
    => /\ Len(last'.view[1].providers) = 1
       /\ last'.view[1].providers[1].is_active
       /\ last'.view[1].providers[1].is_default
       /\ last'.view[1].providers[1].api_key
            = mask_api_key(plaintexts'[last'.user_id][1].typed)

C6_FirstAddShowsMaskOfPlaintext == [][C6_FirstAddStep]_vars

C8_KeylessUpdateStep ==
  LET before == ProvidersOf(user_ai_settings, last'.user_id)
      after == ProvidersOf(user_ai_settings', last'.user_id)
      pos == PyPos(last'.provider_index, Len(before))
  IN  (/\ last'.op = "update_provider"
       /\ last'.status = 200
       /\ IsPosition(last'.provider_index, before)
       /\ ~last'.key_supplied)
        => after[pos].api_key = before[pos].api_key

C8_KeylessUpdateKeepsKey == [][C8_KeylessUpdateStep]_vars

\* The persisted aggregate of a user, an absent aggregate read as the empty
\* one that get_user_settings creates
Persisted(coll, user_id) ==
  IF HasSettings(coll, user_id)
    THEN SettingsOf(coll, user_id) ELSE UserAISettingsInDB(user_id)

\* C9: update_provider with an index that is not a position of the user's
\* provider list (index < 0 or index >= length, or no settings) answers 404
\* and leaves the persisted aggregate unchanged.
C9_UpdateOutOfRangeStep ==
  (/\ last'.op = "update_provider"
   /\ ~IsPosition(last'.provider_index,
                  ProvidersOf(user_ai_settings, last'.user_id)))
    => /\ last'.status = 404
       /\ Persisted(user_ai_settings', last'.user_id)
            = Persisted(user_ai_settings, last'.user_id)

C9_UpdateOutOfRangeIsNotFound == [][C9_UpdateOutOfRangeStep]_vars

\* C10: remove_provider with an index that is not a position of the user's
\* provider list (index < 0 or index >= length, or no settings) answers 404
\* and leaves the collection unchanged.
C10_RemoveOutOfRangeStep ==
  (/\ last'.op = "remove_provider"
   /\ ~IsPosition(last'.provider_index,
                  ProvidersOf(user_ai_settings, last'.user_id)))
    => /\ last'.status = 404
       /\ user_ai_settings' = user_ai_settings

C10_RemoveOutOfRangeIsNotFound == [][C10_RemoveOutOfRangeStep]_vars

\* C11: set_default_provider(user, kind) answers 404 and leaves the
\* collection unchanged when the user has no settings or no entry of that
\* kind; otherwise it persists a list in which the entry of that kind is the
\* default, every other entry has is_default = false, and
\* default_provider = kind.
C11_SetDefaultStep ==
  LET before == ProvidersOf(user_ai_settings, last'.user_id)
      after == SettingsOf(user_ai_settings', last'.user_id)
      kind == last'.provider
  IN  last'.op = "set_default_provider" =>
        IF \A i \in 1..Len(before) : before[i].provider # kind
          THEN /\ last'.status = 404
               /\ user_ai_settings' = user_ai_settings
          ELSE /\ last'.status = 200
               /\ after.default_provider = kind
               /\ \E i \in 1..Len(after.providers) :
                    /\ after.providers[i].provider = kind
                    /\ after.providers[i].is_default
                    /\ \A j \in 1..Len(after.providers) :
                         j # i => ~after.providers[j].is_default

C11_SetDefaultElectsOneEntry == [][C11_SetDefaultStep]_vars

\* One entry with its default flag set aside
SansDefault(entry) == [entry EXCEPT !.is_default = FALSE]

\* C12: a successful add_provider makes the new entry the default when it
\* is the user's first provider or the incoming config is marked default,
\* clearing is_default on every sibling and setting default_provider to the
\* new entry's kind; a successful update_provider with a config marked
\* default clears is_default on every other entry and sets default_provider
\* to the updated entry's kind.  In both cases every other field of the
\* siblings is unchanged.
C12_DefaultFrameStep ==
  LET before == ProvidersOf(user_ai_settings, last'.user_id)
      after == SettingsOf(user_ai_settings', last'.user_id)
      n == Len(before)
      pos == PyPos(last'.provider_index, n)
  IN  /\ (last'.op = "add_provider" /\ last'.stored)
           => /\ Len(after.providers) = n + 1
              /\ \A j \in 1..n :
                   SansDefault(after.providers[j]) = SansDefault(before[j])
              /\ (n = 0 \/ last'.marked_default)
                   => /\ after.providers[n + 1].is_default
                      /\ \A j \in 1..n : ~after.providers[j].is_default
                      /\ after.default_provider = after.providers[n + 1].provider
      /\ (last'.op = "update_provider" /\ last'.stored)
           => /\ Len(after.providers) = n
              /\ \A j \in 1..n :
                   j # pos => SansDefault(after.providers[j])
                                = SansDefault(before[j])
              /\ last'.marked_default
                   => /\ \A j \in 1..n :
                           j # pos => ~after.providers[j].is_default
                      /\ after.default_provider = after.providers[pos].provider
                      /\ IsPosition(last'.provider_index, before)
                           => after.providers[pos].is_default

C12_DefaultMarkClearsSiblings == [][C12_DefaultFrameStep]_vars

\* C12 witness: an update marked default moved the default flag from the
\* first entry to the second.
C12_Witness ==
  /\ last.op = "update_provider"
  /\ last.stored
  /\ last.marked_default
  /\ last.provider_index = 1
  /\ Len(ProvidersOf(user_ai_settings, last.user_id)) = 2
  /\ ProvidersOf(user_ai_settings, last.user_id)[2].is_default
  /\ ~ProvidersOf(user_ai_settings, last.user_id)[1].is_default

\* The provider kinds without a working client
WithoutImplementation == AIProviderType \ {GEMINI}

\* C13: whenever a client is constructed for a kind without a working
\* implementation (openai, claude, deepseek), construction raises
\* NotImplementedError and nothing else, and validate_api_key gives no
\* answer for that kind.
C13_UnimplementedRaisesNotImplemented ==
  (last.client # "absent" /\ last.provider \in WithoutImplementation)
    => /\ last.client = "NotImplementedError"
       /\ last.validated = "none"

\* C14: for every kind without a working client, the service's add_provider
\* answers 501 and the service's test_provider raises the 501 HTTPException
\* (not 400, not 500, not a plain false), and the collection is unchanged.
C14_UnimplementedStep ==
  (last'.op \in {"add_provider", "test_provider"}
     /\ last'.provider \in WithoutImplementation)
    => /\ user_ai_settings' = user_ai_settings
       /\ last'.op = "add_provider" => last'.status = 501
       /\ last'.op = "test_provider" => last'.result = "501"

C14_UnimplementedIsNotImplemented == [][C14_UnimplementedStep]_vars

\* The documents of the collection that belong to one user
AggregatesOf(user_id) ==
  {d \in 1..Len(user_ai_settings) : user_ai_settings[d].user_id = user_id}

\* C15: get-or-create is idempotent and user_id is unique: at most one
\* settings aggregate exists per user in every reachable state, also when
\* requests for a user with no settings interleave at the find_one and
\* insert awaits.
C15_OneAggregatePerUser ==
  \A u \in Users : Cardinality(AggregatesOf(u)) <= 1

\* A persisted aggregate breaks the single-default invariant: its list is
\* non-empty and has no default entry or more than one
BreaksSingleDefault(settings) ==
  /\ settings.providers # <<>>
  /\ Cardinality(Defaults(settings.providers)) # 1

GenerationOps == {"generate_description", "generate_diagram", "improve_diagram"}

\* get_active_provider has nothing to return for the request recorded in
\* last: no settings, an empty list, no kind to resolve, or no active entry
\* of the resolved kind
NoActiveProvider ==
  \/ ~HasSettings(user_ai_settings, last.user_id)
  \/ LET settings == SettingsOf(user_ai_settings, last.user_id)
         kind == IF last.provider # None
                   THEN last.provider ELSE settings.default_provider
     IN  \/ settings.providers = <<>>
         \/ kind = None
         \/ \A i \in 1..Len(settings.providers) :
              ~(/\ settings.providers[i].provider = kind
                /\ settings.providers[i].is_active)

\* C17: generate_description, generate_diagram and improve_diagram answer
\* 404, construct no client and do not call the provider whenever
\* get_active_provider resolves to none for the request.
C17_NoActiveProviderIsNotFound ==
  (last.op \in GenerationOps /\ NoActiveProvider)
    => /\ last.status = 404
       /\ last.client = "absent"
       /\ ~last.called

\* C17 witness: a generation request of a user who has providers, none of
\* them an active entry of the resolved kind, was answered 404.
C17_Witness ==
  /\ last.op \in GenerationOps
  /\ NoActiveProvider
  /\ last.status = 404
  /\ ProvidersOf(user_ai_settings, last.user_id) # <<>>

\* C18: in the three generation methods, once a client has been
\* constructed, a generation call that raises is answered 500, and one that
\* returns is answered 200 with provider_used and model_used equal to the
\* kind and model of the resolved configuration (the request's provider
\* override if given, else the user's default_provider).
C18_GenerationOutcome ==
  (last.op \in GenerationOps /\ last.client = "none")
    => /\ last.called
       /\ last.result = "raised" => last.status = 500
       /\ last.result = "text"
            => /\ last.status = 200
               /\ last.provider_used =
                    (IF last.provider # None THEN last.provider
                     ELSE SettingsOf(user_ai_settings, last.user_id).default_provider)
               /\ last.provider_used = last.active[1].provider
               /\ last.model_used = last.active[1].model

\* C18 witness: a generation request without override returned text
\* served by the user's default kind.
C18_Witness ==
  /\ last.op \in GenerationOps
  /\ last.client = "none"
  /\ last.result = "text"
  /\ last.provider = None
  /\ last.provider_used = GEMINI

\* C19: test_provider persists nothing whatever the kind, key and outcome,
\* and for the implemented kind an unexpected failure inside the call gives
\* the result false, not an error.
C19_TestProviderStep ==
  last'.op = "test_provider"
    => /\ user_ai_settings' = user_ai_settings
       /\ (last'.provider = GEMINI /\ last'.validated = "error")
            => (last'.result = "false" /\ last'.status = 200)

C19_TestProviderIsReadOnly == [][C19_TestProviderStep]_vars

\* C19 witness: a test of a gemini key that failed unexpectedly, with
\* settings persisted.
C19_Witness ==
  /\ last.op = "test_provider"
  /\ last.provider = GEMINI
  /\ last.validated = "error"
  /\ last.result = "false"
  /\ user_ai_settings # <<>>

\* What the claim says mask_api_key returns for k
MaskShape(k, masked) ==
  /\ Len(k) <= 8 => masked = <<"*","*","*">>
  /\ Len(k) > 8
       => masked = SubSeq(k, 1, 4) \o <<".",".",".">> \o SubSeq(k, Len(k) - 2, Len(k))

\* C20 as stated: mask_api_key(k) is "***" for every k of length <= 8 and
\* k[0:4] + "..." + k[-3:] for every longer k, and it never returns the
\* full key.
C20_MaskNeverReturnsKey ==
  call.fn = "mask_api_key"
    => (MaskShape(call.arg, call.result) /\ call.result # call.arg)

\* C20, amended: mask_api_key(k) is "***" for every k of length <= 8 and
\* k[0:4] + "..." + k[-3:] for every longer k; it returns k itself exactly
\* when k already reads as a mask: k = "***", or k has 10 characters of
\* which the 5th to 7th are "...".
C20_MaskShapeAndFixpoints ==
  call.fn = "mask_api_key"
    => /\ MaskShape(call.arg, call.result)
       /\ call.result = call.arg
            <=> \/ call.arg = <<"*","*","*">>
                \/ /\ Len(call.arg) = 10
                   /\ SubSeq(call.arg, 5, 7) = <<".",".",".">>

\* C20 witness: a key longer than 8 characters was masked to a string that
\* is not the key.
C20_Witness ==
  /\ call.fn = "mask_api_key"
  /\ Len(call.arg) = 9
  /\ call.result # call.arg
  /\ Len(call.result) = 10

\* C21: for every non-empty string k and a configured encryption key,
\* decrypt_api_key(encrypt_api_key(k)) = k; decrypting a ciphertext that was
\* produced under a different encryption key raises InvalidToken and
\* returns no string; encrypt_api_key raises ValueError when no encryption
\* key is configured, and only then.
C21_VaultRoundTrip ==
  /\ call.fn = "encrypt_api_key"
       => (call.exc = "ValueError" <=> call.key = NoEncryptionKey)
            /\ (call.key # NoEncryptionKey => call.exc = "none")
  /\ (call.fn = "decrypt_api_key" /\ call.origin.plain # <<>>)
       => /\ call.key = call.origin.key
               => call.exc = "none" /\ call.result = call.origin.plain
          /\ (call.key # call.origin.key /\ call.key # NoEncryptionKey)
               => call.exc = "InvalidToken" /\ call.result = <<>>

\* C21 witness: a user key encrypted under one key was handed to
\* decrypt_api_key under another configured key, which raised InvalidToken.
C21_Witness ==
  /\ call.fn = "decrypt_api_key"
  /\ call.origin.plain \in UserKeys
  /\ call.origin.key \in EncryptionKeys
  /\ call.key \in RotatedKeys
  /\ call.exc = "InvalidToken"

\* C22: GeminiClient.generate_description raises ValueError whenever the
\* model call raises or the model returns empty content, and a call that
\* returns normally never returns the empty string.
C22_DescriptionNeverEmpty ==
  call.fn = "generate_description"
    => /\ (call.raised \/ call.arg = <<>>) => call.exc = "ValueError"
       /\ call.exc = "none" => call.result # <<>>

\* Reading the users collection
HasUser(coll, email) == \E i \in 1..Len(coll) : coll[i].email = email

\* The supplied token is the one stored for the email and its expiry has
\* not passed
TokenStands(coll, time, email, token) ==
  \E i \in 1..Len(coll) :
    /\ coll[i].email = email
    /\ coll[i].reset_token = <<token>>
    /\ coll[i].reset_token_expires # <<>>
    /\ time <= coll[i].reset_token_expires[1]

PasswordChanged ==
  \E i \in 1..Len(users) : users'[i].hashed_password # users[i].hashed_password

ConfirmStep == handled' = handled + 1 /\ last'.op = "reset_password_confirm"

\* C23: confirm_password_reset changes a password only if the supplied
\* token equals the reset token stored for that email and the stored expiry
\* has not passed; with a wrong token, an expired token, no stored token or
\* an unknown email it answers 400 and leaves every stored password hash
\* and reset token unchanged.
C23_ConfirmStep ==
  ConfirmStep =>
    /\ PasswordChanged => TokenStands(users, now, last'.email, last'.token)
    /\ ~TokenStands(users, now, last'.email, last'.token)
         => last'.status = 400 /\ users' = users

C23_ResetNeedsStandingToken == [][C23_ConfirmStep]_vars

\* C23 witness: a confirmation with the stored token was refused because
\* the expiry had passed.
C23_Witness ==
  /\ last.op = "reset_password_confirm"
  /\ last.status = 400
  /\ \E i \in 1..Len(users) :
       /\ users[i].email = last.email
       /\ users[i].reset_token = <<last.token>>
       /\ now > users[i].reset_token_expires[1]

\* C28: after a successful confirm_password_reset the stored reset token
\* and its expiry are cleared; a token is stored again only by
\* reset_password_request; and as long as none is stored every
\* confirm_password_reset for the email, the replay of the token that was
\* just used included, answers 400 and changes nothing.
C28_SingleUseStep ==
  /\ (ConfirmStep /\ last'.status = 200)
       => \A i \in 1..Len(users') :
            users'[i].email = last'.email
              => /\ users'[i].reset_token = <<>>
                 /\ users'[i].reset_token_expires = <<>>
  /\ \A i \in 1..Len(users) :
       (users[i].reset_token = <<>> /\ users'[i].reset_token # <<>>)
         => /\ last'.op = "reset_password_request"
            /\ last'.email = users[i].email
  /\ \A i \in 1..Len(users) :
       (ConfirmStep /\ last'.email = users[i].email
          /\ users[i].reset_token = <<>>)
         => last'.status = 400 /\ users' = users
  /\ (ConfirmStep /\ last.op = "reset_password_confirm" /\ last.status = 200
        /\ last'.email = last.email /\ last'.token = last.token)
       => last'.status = 400 /\ users' = users

C28_ResetTokenIsSingleUse == [][C28_SingleUseStep]_vars

\* C28 witness: a user whose password was set by a confirmation and whose
\* token is cleared had a further confirmation refused.
C28_Witness ==
  /\ last.op = "reset_password_confirm"
  /\ last.status = 400
  /\ last.token \in TokenValues
  /\ \E i \in 1..Len(users) :
       /\ users[i].email = last.email
       /\ users[i].reset_token = <<>>
       /\ users[i].hashed_password.bcrypt = "Passw0rd2"

\* C24: in every persisted aggregate, default_provider is None if and only
\* if the provider list is empty, and otherwise it is the kind of an entry
\* whose is_default flag is true.
C24_DefaultProviderConsistent ==
  \A d \in 1..Len(user_ai_settings) :
    LET settings == user_ai_settings[d]
    IN  /\ settings.default_provider = None <=> settings.providers = <<>>
        /\ settings.providers # <<>>
             => \E i \in Defaults(settings.providers) :
                  settings.providers[i].provider = settings.default_provider

\* C25: when get_active_provider is called without an explicit kind and
\* returns an entry, that entry is flagged is_default in the user's list.
C25_UnqualifiedRequestUsesDefault ==
  (last.op \in GenerationOps /\ last.provider = None /\ last.active # <<>>)
    => last.active[1].is_default

\* The call of task t is an add_provider suspended at pc
AddAt(t, pc) ==
  /\ tasks[t].op = "add_provider"
  /\ tasks[t].pc = pc
  /\ tasks[t].user_id \in ConcurrentUsers

\* Task t2 has saved its provider and awaits its final re-read (it will
\* answer 201), the stored document is the one t2 wrote, and task t, which
\* read before, now completes its own save (it will answer 201 as well).
\* Both calls read a settings document that already held a provider, so
\* neither of them created the user's settings.
InterleavedSaves(t, t2) ==
  /\ t # t2
  /\ AddAt(t, "save")
  /\ AddAt(t2, "reread")
  /\ tasks[t].settings[1].doc.providers # <<>>
  /\ Len(tasks[t2].settings[1].doc.providers) >= 2
  /\ tasks[t2].settings[1].pos = tasks[t].settings[1].pos
  /\ user_ai_settings[tasks[t2].settings[1].pos] = tasks[t2].settings[1].doc
  /\ tasks'[t].pc = "reread"

\* The stored list still holds, in place, every entry of the list written
\* by t2 (is_default aside), followed by the entry of t
KeepsBoth(t, t2) ==
  LET pos == tasks[t2].settings[1].pos
      written == tasks[t2].settings[1].doc.providers
      stored == user_ai_settings'[pos].providers
  IN  /\ Len(stored) = Len(written) + 1
      /\ \A i \in 1..Len(written) :
           [stored[i] EXCEPT !.is_default = FALSE]
             = [written[i] EXCEPT !.is_default = FALSE]

C26_SaveStep ==
  \A t \in Tasks, t2 \in Tasks : InterleavedSaves(t, t2) => KeepsBoth(t, t2)

\* C26: no acknowledged update is lost: when two add_provider calls of a
\* user who already has a settings aggregate interleave at the read and
\* save suspension points and both succeed, the list persisted by the
\* later save holds both added providers.
C26_NoAcknowledgedAddLost == [][C26_SaveStep]_vars

\* List positions are the 0-based offsets 0 .. len - 1; position j of a
\* list is element j + 1 of the sequence
Positions(providers) == 0..(Len(providers) - 1)

\* The entry at position j of after is the entry at position i of before;
\* the is_default flag of the first entry of after may differ
SameEntry(after, j, before, i) ==
  /\ j \in Positions(after)
  /\ i \in Positions(before)
  /\ IF j = 0
       THEN [after[j + 1] EXCEPT !.is_default = FALSE]
              = [before[i + 1] EXCEPT !.is_default = FALSE]
       ELSE after[j + 1] = before[i + 1]

C27_RemoveStep ==
  LET before == ProvidersOf(user_ai_settings, last'.user_id)
      after == ProvidersOf(user_ai_settings', last'.user_id)
      i == last'.provider_index
  IN  (last'.op = "remove_provider" /\ last'.status = 200)
        => /\ Len(after) = Len(before) - 1
           /\ \A j \in Positions(before) :
                /\ j < i => SameEntry(after, j, before, j)
                /\ j > i => SameEntry(after, j - 1, before, j)

\* add_provider appends: the entries already stored keep their positions
C27_AddStep ==
  LET before == ProvidersOf(user_ai_settings, last'.user_id)
      after == ProvidersOf(user_ai_settings', last'.user_id)
  IN  (last'.op = "add_provider" /\ last'.stored)
        => /\ Len(after) = Len(before) + 1
           /\ \A j \in Positions(before) :
                [after[j + 1] EXCEPT !.is_default = FALSE]
                  = [before[j + 1] EXCEPT !.is_default = FALSE]

\* C27: a successful remove_provider(user, i) removes exactly the entry at
\* position i: the entries before i stay where they were, the entries at
\* positions j > i are afterwards at j - 1, and no field of theirs changes
\* except possibly is_default of the first remaining entry; add_provider
\* appends at the end and leaves the stored entries at their positions.
C27_RemovalShiftsLaterEntries == [][C27_RemoveStep /\ C27_AddStep]_vars

\* Reading the workspace
InProject(coll, project_id) == {x \in Range(coll) : x.project_id = project_id}

InFolder(coll, folder_id) == {d \in Range(coll) : d.folder_id = <<folder_id>>}

WithId(coll, id) == {x \in Range(coll) : x.id = id}

C29_DeleteProjectStep ==
  (last'.op = "delete_project" /\ last'.status = 200)
    => /\ InProject(diagrams', last'.id) = {}
       /\ InProject(folders', last'.id) = {}

C29_DeleteFolderStep ==
  (last'.op = "delete_folder" /\ last'.status = 200)
    => /\ InFolder(diagrams', last'.id) = {}
       /\ \A d \in InFolder(diagrams, last'.id) :
            IF last'.delete_diagrams
              THEN WithId(diagrams', d.id) = {}
              ELSE WithId(diagrams', d.id) = {[d EXCEPT !.folder_id = <<>>]}

\* C29: deleting a container leaves no dangling children: after a
\* successful delete_project no diagram and no folder of that project_id is
\* stored; after a successful delete_folder no diagram refers to the
\* folder_id, its diagrams being deleted when delete_diagrams is true and
\* otherwise kept with folder_id = None.
C29_NoDanglingChildren ==
  [][C29_DeleteProjectStep /\ C29_DeleteFolderStep]_vars

\* The operations that get, update or delete a stored object
ProjectOps == {"get_project", "update_project", "delete_project"}

FolderOps == {"get_folder", "update_folder", "delete_folder"}

DiagramOps == {"get_diagram", "update_diagram", "delete_diagram"}

\* The stored object an operation names
Target(op, id) ==
  IF op \in ProjectOps THEN WithId(projects, id)
  ELSE IF op \in FolderOps THEN WithId(folders, id)
  ELSE WithId(diagrams, id)

\* The owners of the project that encloses the object
Owners(op, id) ==
  {p.user_id : p \in
     {q \in Range(projects) :
        \E x \in Target(op, id) :
          q.id = (IF op \in ProjectOps THEN x.id ELSE x.project_id)}}

C30_Step ==
  (last'.op \in ProjectOps \cup FolderOps \cup DiagramOps)
    => /\ Target(last'.op, last'.id) = {}
            => last'.status = 404 /\ workspace' = workspace
       /\ (/\ Target(last'.op, last'.id) # {}
           /\ last'.user_id \notin Owners(last'.op, last'.id))
            => last'.status = 403 /\ workspace' = workspace

\* C30: a get, update or delete of a project, folder or diagram by a user
\* who does not own the enclosing project is answered 403 (404 when the
\* object does not exist) and leaves every stored project, folder and
\* diagram as it was.
C30_OwnershipEnforced == [][C30_Step]_vars

\* C30 witness: an update or delete by a user who does not own the
\* enclosing project was refused and the object is still stored.
C30_Witness ==
  /\ last.op \in {"update_project", "delete_project", "update_folder",
                  "delete_folder", "update_diagram", "delete_diagram"}
  /\ last.status = 403
  /\ Target(last.op, last.id) # {}
  /\ last.user_id \notin Owners(last.op, last.id)

====
